---- MODULE Spec2Model ----
(***************************************************************************)
(* Email-authentication analyzers of backend-free-tools: the DMARC, SPF,   *)
(* DKIM and MX record parsers and scorers, the four analyzers around them  *)
(* and the composite analyzer analyzeEmailSecurity, then the web layer in  *)
(* front of them: the fixed-window rate limiter, the captcha store and the *)
(* two captcha-protected POST routes.  Time is a tick counter: a tick of   *)
(* the rate limiter is half a window, a tick of the captcha store is one   *)
(* expiry period.                                                          *)
(*                                                                         *)
(* A JavaScript string is a sequence of one-character strings, so that     *)
(* split, startsWith, includes, toLowerCase and parseInt are computed on   *)
(* the characters as the code computes them.  A score is an integer number *)
(* of 1/Scale points (Scale = 50 makes every contribution of the code,     *)
(* (100 - pct) / 50 included, a whole number); a reported score.value is   *)
(* an integer number of tenths, the one decimal Math.round(x * 10) / 10    *)
(* keeps.                                                                  *)
(***************************************************************************)
EXTENDS Integers, Sequences, FiniteSets, TLC

VARIABLES
    dmarcPc,        \* position of the DMARC analysis: idle, record, done, failed
    dmarcRecord,    \* the raw DMARC record handed to parseDMARC
    libParse,       \* what the dmarc-parse library does with dmarcRecord
    dmarcAnalysis,  \* the analysis enrichDMARC returned, or the error thrown
    spfPc,          \* position of the SPF analysis
    spfRecord,      \* the raw SPF record handed to analyzeSPFRecord
    spfAnalysis,    \* the analysis analyzeSPFRecord returned
    dkimPc,         \* position of the DKIM analysis
    dkimKey,        \* the raw DKIM record handed to analyzeDKIMRecord
    dkimAnalysis,   \* the analysis analyzeDKIMRecord returned
    mxPc,           \* position of the MX analysis
    mxRecords,      \* the resolver's answer to resolveMx
    mxResult,       \* the result envelope analyzeMX returned
    servicePc,      \* idle, or listening: the service answers analysis calls
    served,         \* the analysis calls the service has answered, in order
    dmarcInvoked,   \* for each analyzeDMARC call served, the collaborators it
                    \* invoked, in order
    compPc,         \* position of analyzeEmailSecurity: idle, called, awaiting,
                    \* resolved, rejected
    settled,        \* what each of its four analyses has settled with so far
    composite,      \* what analyzeEmailSecurity settled with
    rlPc,           \* idle, or running: the rate limiter sees requests
    rlNow,          \* Date.now(), in ticks
    rateLimitStore, \* the Map of rateLimit.js: IP -> {count, resetTime}
    rlLast,         \* the last request seen: its IP and what it was answered
    rlAdmitted,     \* per IP, the requests admitted in its window and lately
    rlOthers,       \* the number of requests the other client has sent
    capPc,          \* idle, or the application whose captcha store this is
    capNow,         \* Date.now(), in ticks
    captchaStore,   \* the Map of captcha.js: token -> {text, expires}
    capIssued,      \* the number of captchas issued: token k is the k-th
    capUse,         \* per token, what verifications and analyses it had
    capLast         \* the last call of createCaptcha, verifyCaptcha or a route
                    \* at the present tick

dmarcVars == <<dmarcPc, dmarcRecord, libParse, dmarcAnalysis>>
spfVars == <<spfPc, spfRecord, spfAnalysis>>
dkimVars == <<dkimPc, dkimKey, dkimAnalysis>>
mxVars == <<mxPc, mxRecords, mxResult>>
serviceVars == <<servicePc, served, dmarcInvoked>>
compVars == <<compPc, settled, composite>>
rateVars == <<rlPc, rlNow, rateLimitStore, rlLast, rlAdmitted, rlOthers>>
captchaVars == <<capPc, capNow, captchaStore, capIssued, capUse, capLast>>
webVars == <<rateVars, captchaVars>>
vars == <<dmarcVars, spfVars, dkimVars, mxVars, serviceVars, compVars, webVars>>

(***************************************************************************)
(* Bounds of the model.                                                    *)
(***************************************************************************)
\* pct tags of the generated DMARC records run from -PctOver to 100 + PctOver
PctOver == 2
\* most mechanism tokens after "v=spf1" in a generated SPF record
MaxSpfTokens == 3
\* most fragments concatenated into a generated DKIM record
MaxDkimParts == 4
\* most MX records in a resolver answer
MaxMx == 3
\* MX priorities are 0, 10, ..., 10 * MaxPriorityStep
MaxPriorityStep == 2
\* the service answers up to MaxRequests analysis calls
MaxRequests == 3
\* the clock of the rate limiter runs from tick 0 to tick MaxTick
MaxTick == 4
\* requests the second client sends
MaxOtherRequests == 2
\* captchas issued in one behaviour
MaxCaptchas == 2
\* the clock of the captcha store runs from tick 0 to tick MaxCaptchaTick
MaxCaptchaTick == 2

\* score points are counted in 1/Scale: the divisor of (100 - pct) / 50
Scale == 50

(***************************************************************************)
(* JavaScript string operations on character sequences.                    *)
(***************************************************************************)
Whitespace == {" ", "\t", "\n", "\r"}

UpperLetters == <<"A","B","C","D","E","F","G","H","I","J","K","L","M",
                  "N","O","P","Q","R","S","T","U","V","W","X","Y","Z">>
LowerLetters == <<"a","b","c","d","e","f","g","h","i","j","k","l","m",
                  "n","o","p","q","r","s","t","u","v","w","x","y","z">>

LowerChar(c) ==
    IF \E i \in 1..26 : UpperLetters[i] = c
    THEN LowerLetters[CHOOSE i \in 1..26 : UpperLetters[i] = c]
    ELSE c

\* String.prototype.toLowerCase
ToLowerCase(s) == [i \in 1..Len(s) |-> LowerChar(s[i])]

\* String.prototype.startsWith
StartsWith(s, prefix) ==
    /\ Len(prefix) <= Len(s)
    /\ \A i \in 1..Len(prefix) : s[i] = prefix[i]

\* String.prototype.includes
Includes(s, sub) ==
    \E k \in 0..(Len(s) - Len(sub)) : \A i \in 1..Len(sub) : s[k + i] = sub[i]

RECURSIVE SplitFrom(_, _, _, _)
SplitFrom(s, sep, i, cur) ==
    IF i > Len(s) THEN <<cur>>
    ELSE IF s[i] = sep THEN <<cur>> \o SplitFrom(s, sep, i + 1, <<>>)
    ELSE SplitFrom(s, sep, i + 1, Append(cur, s[i]))

\* String.prototype.split(sep) for a one-character separator: every piece,
\* the empty ones included
Split(s, sep) == SplitFrom(s, sep, 1, <<>>)

\* String.prototype.split(sep, limit): the string is split at EVERY
\* separator and the first `limit` pieces are kept; the rest is dropped
SplitLimit(s, sep, limit) ==
    LET pieces == Split(s, sep)
    IN  SubSeq(pieces, 1, IF Len(pieces) < limit THEN Len(pieces) ELSE limit)

\* record.replace(/\s+/g, '')
StripWhitespace(s) == SelectSeq(s, LAMBDA c : c \notin Whitespace)

RECURSIVE TrimLeft(_)
TrimLeft(s) ==
    IF s # <<>> /\ Head(s) \in Whitespace THEN TrimLeft(Tail(s)) ELSE s

RECURSIVE TrimRight(_)
TrimRight(s) ==
    IF s # <<>> /\ s[Len(s)] \in Whitespace
    THEN TrimRight(SubSeq(s, 1, Len(s) - 1)) ELSE s

\* String.prototype.trim
Trim(s) == TrimRight(TrimLeft(s))

RECURSIVE Join(_, _)
\* Array.prototype.join
Join(parts, sep) ==
    IF parts = <<>> THEN <<>>
    ELSE IF Len(parts) = 1 THEN parts[1]
    ELSE parts[1] \o sep \o Join(Tail(parts), sep)

HexDigits == <<"0","1","2","3","4","5","6","7","8","9","a","b","c","d","e","f">>

\* the value of character c as a digit of the radix, or -1
DigitValue(c, radix) ==
    LET lc == LowerChar(c)
    IN  IF \E i \in 1..radix : HexDigits[i] = lc
        THEN (CHOOSE i \in 1..radix : HexDigits[i] = lc) - 1
        ELSE -1

RECURSIVE ParseDigits(_, _, _, _)
\* the longest prefix of s[i..] made of digits, read in the radix
ParseDigits(s, i, radix, acc) ==
    IF i > Len(s) \/ DigitValue(s[i], radix) < 0 THEN acc
    ELSE ParseDigits(s, i + 1, radix, acc * radix + DigitValue(s[i], radix))

\* parseInt(s) with no radix: leading whitespace, an optional sign, an
\* optional 0x (radix 16), then the longest prefix of digits; NaN when there
\* is no digit.  The result is [nan, value].
ParseInt(s) ==
    LET t == TrimLeft(s)
        signed == t # <<>> /\ t[1] \in {"-", "+"}
        u == IF signed THEN Tail(t) ELSE t
        hex == Len(u) >= 2 /\ u[1] = "0" /\ u[2] \in {"x", "X"}
        radix == IF hex THEN 16 ELSE 10
        digits == IF hex THEN SubSeq(u, 3, Len(u)) ELSE u
        magnitude == ParseDigits(digits, 1, radix, 0)
    IN  IF digits = <<>> \/ DigitValue(digits[1], radix) < 0
        THEN [nan |-> TRUE, value |-> 0]
        ELSE [nan |-> FALSE,
              value |-> IF signed /\ t[1] = "-" THEN 0 - magnitude ELSE magnitude]

\* parseInt(value) || fallback: NaN and 0 are falsy
ParseIntOr(s, fallback) ==
    LET n == ParseInt(s)
    IN  IF n.nan \/ n.value = 0 THEN fallback ELSE n.value

\* Math.min(base, outOf) alone: the floor at 0 is forgotten
ClampWithoutFloor(base, outOf) ==
    IF base < outOf * Scale THEN base ELSE outOf * Scale

\* Math.max(Math.min(base, outOf), 0), in 1/Scale points
Clamp(base, outOf) ==
    LET capped == IF base < outOf * Scale THEN base ELSE outOf * Scale
    IN  IF capped > 0 THEN capped ELSE 0

\* Math.round(finalScore * 10) / 10 as a number of tenths.  finalScore * 10 is
\* a multiple of 1/5, never within 0.1 of a tie, so floating point rounds it
\* as exact arithmetic does.
RoundTenths(finalScore) == (20 * finalScore + Scale) \div (2 * Scale)

(***************************************************************************)
(* String literals of the code.                                            *)
(***************************************************************************)
S_v == <<"v">>
S_p == <<"p">>
S_sp == <<"s","p">>
S_adkim == <<"a","d","k","i","m">>
S_aspf == <<"a","s","p","f">>
S_pct == <<"p","c","t">>
S_fo == <<"f","o">>
S_rf == <<"r","f">>
S_ri == <<"r","i">>
S_rua == <<"r","u","a">>
S_ruf == <<"r","u","f">>
S_s == <<"s">>
S_reject == <<"r","e","j","e","c","t">>
S_quarantine == <<"q","u","a","r","a","n","t","i","n","e">>
S_none == <<"n","o","n","e">>
S_DMARC1 == <<"D","M","A","R","C","1">>

(***************************************************************************)
(* DMARC: parseDMARC, customDMARCParse, enrichDMARC.                       *)
(* A parsed policy is a function from tag names to values: a string, an    *)
(* integer (pct, ri) or a list of strings (rua, ruf).                      *)
(***************************************************************************)
EmptyPolicy == [k \in {} |-> <<>>]

\* result[key] = value
Put(result, key, value) ==
    [k \in DOMAIN result \cup {key} |-> IF k = key THEN value ELSE result[k]]

\* result.tag is truthy: present, and neither 0 (the integer tags pct and ri)
\* nor an empty string or list
Has(result, tag) ==
    /\ tag \in DOMAIN result
    /\ IF tag \in {S_pct, S_ri} THEN result[tag] # 0 ELSE result[tag] # <<>>

\* value.split(',').map(addr => addr.trim())
AddressList(value) ==
    LET pieces == Split(value, ",")
    IN  [i \in 1..Len(pieces) |-> Trim(pieces[i])]

\* the switch of customDMARCParse on key.toLowerCase(); an unknown tag is
\* stored under the key as written
StoreTag(result, key, value) ==
    LET tag == ToLowerCase(key)
    IN  IF tag \in {S_v, S_p, S_sp, S_adkim, S_aspf, S_fo, S_rf}
        THEN Put(result, tag, value)
        ELSE IF tag = S_pct THEN Put(result, S_pct, ParseIntOr(value, 100))
        ELSE IF tag = S_ri THEN Put(result, S_ri, ParseIntOr(value, 86400))
        ELSE IF tag \in {S_rua, S_ruf} THEN Put(result, tag, AddressList(value))
        ELSE Put(result, key, value)

RECURSIVE ParseParts(_, _, _)
\* the for loop of customDMARCParse over parts[i..]
ParseParts(parts, i, result) ==
    IF i > Len(parts) THEN result
    ELSE LET kv == SplitLimit(parts[i], "=", 2)
             key == kv[1]
         IN  IF key # <<>> /\ Len(kv) >= 2 /\ kv[2] # <<>>
             THEN ParseParts(parts, i + 1, StoreTag(result, key, kv[2]))
             ELSE ParseParts(parts, i + 1, result)

\* the policy parsed by the last DMARC call the service answered
LastParsed ==
    LET answered == SelectSeq(served, LAMBDA entry :
                        /\ entry.call.protocol = "dmarc"
                        /\ entry.settlement.status = "fulfilled"
                        /\ entry.settlement.value.success)
    IN  IF answered = <<>> THEN EmptyPolicy
        ELSE answered[Len(answered)].settlement.value.parsed

\* the result object outlives the call: the tags of the last record parsed
\* are still there
customDMARCParseKeepingTags(record) ==
    LET parts == SelectSeq(Split(StripWhitespace(record), ";"),
                           LAMBDA part : Len(part) > 0)
    IN  ParseParts(parts, 1, LastParsed)

customDMARCParse(record) ==
    LET parts == SelectSeq(Split(StripWhitespace(record), ";"),
                           LAMBDA part : Len(part) > 0)
    IN  ParseParts(parts, 1, EmptyPolicy)

\* the dmarc-parse library is not part of the repository: it throws, returns
\* nothing (null), or returns an object
LibThrows == [kind |-> "throws", value |-> EmptyPolicy]
LibNull == [kind |-> "null", value |-> EmptyPolicy]
LibObject(policy) == [kind |-> "object", value |-> policy]

\* the hand-written parser is taken only when the library throws
UsesCustomParserOnThrowOnly(lib) == lib.kind = "throws"

\* parseDMARC takes the hand-written parser
UsesCustomParser(lib) ==
    \/ lib.kind = "throws"
    \/ lib.kind = "null"
    \/ DOMAIN lib.value = {}
    \/ ~Has(lib.value, S_v)

\* parseDMARC before its validation
ParsedBy(record, lib) ==
    IF UsesCustomParser(lib) THEN customDMARCParse(record) ELSE lib.value

\* !parsed.v || !parsed.v.includes('DMARC1')
InvalidVersion(parsed) == ~Has(parsed, S_v) \/ ~Includes(parsed[S_v], S_DMARC1)

\* parseDMARC: [ok, parsed] or [ok = FALSE, error]
parseDMARC(record, lib) ==
    LET parsed == ParsedBy(record, lib)
    IN  IF InvalidVersion(parsed)
        THEN [ok |-> FALSE, parsed |-> EmptyPolicy,
              error |-> "Invalid DMARC record: missing or incorrect version"]
        ELSE [ok |-> TRUE, parsed |-> parsed, error |-> ""]

\* p=none scored like p=quarantine
PolicyPointsNoneScores(result) ==
    IF S_p \notin DOMAIN result THEN 0 - 2 * Scale
    ELSE IF result[S_p] = S_reject THEN 5 * Scale
    ELSE IF result[S_p] \in {S_quarantine, S_none} THEN 3 * Scale
    ELSE 0 - 2 * Scale

\* switch (result.p): points, in 1/Scale
PolicyPoints(result) ==
    IF S_p \notin DOMAIN result THEN 0 - 2 * Scale
    ELSE IF result[S_p] = S_reject THEN 5 * Scale
    ELSE IF result[S_p] = S_quarantine THEN 3 * Scale
    ELSE IF result[S_p] = S_none THEN 0
    ELSE 0 - 2 * Scale

\* const pct = result.pct || 100
EffectivePct(result) == IF Has(result, S_pct) THEN result[S_pct] ELSE 100

\* the coverage rule without its +0.5 at full coverage
CoveragePointsNoBonus(pct) ==
    IF pct < 100 THEN 0 - ((100 - pct) * Scale) \div 50 ELSE 0

\* the coverage rule: pct < 100 subtracts (100 - pct) / 50, else +0.5
CoveragePoints(pct) ==
    IF pct < 100 THEN 0 - ((100 - pct) * Scale) \div 50 ELSE Scale \div 2

\* score.base after every rule of enrichDMARC
DmarcBase(result) ==
    PolicyPoints(result)
    + (IF Has(result, S_rua) THEN Scale ELSE 0)
    + (IF Has(result, S_ruf) THEN Scale ELSE 0)
    + (IF Has(result, S_sp) THEN Scale ELSE 0)
    + (IF Has(result, S_sp) /\ result[S_sp] = S_reject THEN Scale \div 2 ELSE 0)
    + CoveragePoints(EffectivePct(result))
    + (IF S_adkim \in DOMAIN result /\ result[S_adkim] = S_s THEN Scale \div 2 ELSE 0)
    + (IF S_aspf \in DOMAIN result /\ result[S_aspf] = S_s THEN Scale \div 2 ELSE 0)

DmarcWarnings(result) ==
    LET pct == EffectivePct(result)
        p == IF S_p \in DOMAIN result THEN result[S_p] ELSE <<>>
    IN  (IF p = S_none
         THEN <<"Policy \"p=none\" offers no protection. Consider \"quarantine\" or \"reject\".">>
         ELSE IF p \in {S_reject, S_quarantine} THEN <<>>
         ELSE <<"Unknown or missing policy: ${result.p || 'undefined'}">>)
        \o (IF Has(result, S_rua) THEN <<>>
            ELSE <<"No rua tag configured - you will not receive aggregate reports.">>)
        \o (IF pct < 100 THEN <<"Only ${pct}% of mail is subject to DMARC policy.">> ELSE <<>>)
        \o (IF pct < 50
            THEN <<"Very low policy coverage - consider increasing pct value">> ELSE <<>>)

DmarcRecommendations(result) ==
    LET p == IF S_p \in DOMAIN result THEN result[S_p] ELSE <<>>
    IN  (IF p = S_quarantine
         THEN <<"Consider upgrading to \"p=reject\" for maximum security">>
         ELSE IF p = S_none
         THEN <<"Start with \"p=quarantine\" and monitor reports before moving to \"p=reject\"">>
         ELSE <<>>)
        \o (IF Has(result, S_rua) THEN <<>>
            ELSE <<"Add rua=mailto:dmarc-reports@yourdomain.com to receive aggregate reports">>)
        \o (IF Has(result, S_ruf) THEN <<>>
            ELSE <<"Consider adding ruf=mailto:dmarc-forensic@yourdomain.com for detailed failure reports">>)
        \o (IF Has(result, S_sp) THEN <<>>
            ELSE <<"Consider adding sp= to explicitly define subdomain policy">>)

DmarcDetails(result) ==
    LET p == IF S_p \in DOMAIN result THEN result[S_p] ELSE <<>>
    IN  (IF p = S_reject THEN <<"Strong policy: reject (+5 points)">>
         ELSE IF p = S_quarantine THEN <<"Moderate policy: quarantine (+3 points)">>
         ELSE <<>>)
        \o (IF Has(result, S_rua) THEN <<"Aggregate reports configured (+1 point)">> ELSE <<>>)
        \o (IF Has(result, S_ruf) THEN <<"Forensic reports configured (+1 point)">> ELSE <<>>)
        \o (IF Has(result, S_sp) THEN <<"Subdomain policy defined (+1 point)">> ELSE <<>>)
        \o (IF Has(result, S_sp) /\ result[S_sp] = S_reject
            THEN <<"Strong subdomain policy (+0.5 points)">> ELSE <<>>)
        \o (IF EffectivePct(result) < 100 THEN <<>>
            ELSE <<"Full policy coverage (+0.5 points)">>)
        \o (IF S_adkim \in DOMAIN result /\ result[S_adkim] = S_s
            THEN <<"Strict DKIM alignment (+0.5 points)">> ELSE <<>>)
        \o (IF S_aspf \in DOMAIN result /\ result[S_aspf] = S_s
            THEN <<"Strict SPF alignment (+0.5 points)">> ELSE <<>>)

\* the external verifier's result (mailauth.dmarc.verify): null when it threw
\* or returned nothing, else its status.result and info, "" when missing
NoVerifierResult == [present |-> FALSE, result |-> "", info |-> ""]

\* the detail lines appended for the verifier's result: the check line when
\* status.result is there, the info line (DMARC and DKIM only) when info is
VerifierDetails(checkLine, infoLine, verifierResult) ==
    IF ~verifierResult.present THEN <<>>
    ELSE (IF verifierResult.result # "" THEN <<checkLine>> ELSE <<>>)
         \o (IF infoLine # "" /\ verifierResult.info # "" THEN <<infoLine>> ELSE <<>>)

\* the level of a DMARC finalScore: >= 8 Excellent, >= 6 Good, >= 4 Fair
DmarcLevel(finalScore) ==
    IF finalScore >= 8 * Scale THEN "Excellent"
    ELSE IF finalScore >= 6 * Scale THEN "Good"
    ELSE IF finalScore >= 4 * Scale THEN "Fair"
    ELSE "Poor"

enrichDMARC(result, dmarcResult) ==
    LET finalScore == Clamp(DmarcBase(result), 10)
    IN  [parsed |-> result,
         warnings |-> DmarcWarnings(result),
         recommendations |-> DmarcRecommendations(result),
         score |-> [value |-> RoundTenths(finalScore),
                    outOf |-> 10,
                    level |-> DmarcLevel(finalScore),
                    details |-> DmarcDetails(result)
                                \o VerifierDetails("Mailauth DMARC check: ${status.result}",
                                                   "DMARC info: ${info}", dmarcResult)]]

(***************************************************************************)
(* The DMARC records and library outcomes the analysis is run on.          *)
(***************************************************************************)
DecimalDigits == <<"0","1","2","3","4","5","6","7","8","9">>

RECURSIVE NatToDecimal(_)
NatToDecimal(n) ==
    IF n < 10 THEN <<DecimalDigits[n + 1]>>
    ELSE Append(NatToDecimal(n \div 10), DecimalDigits[(n % 10) + 1])

\* the decimal text of an integer
ToDecimal(n) == IF n < 0 THEN <<"-">> \o NatToDecimal(0 - n) ELSE NatToDecimal(n)

S_vDMARC1 == <<"v","=","D","M","A","R","C","1">>
S_mailtoA == <<"m","a","i","l","t","o",":","a","@","b",".","c","o","m">>
S_mailtoC == <<"m","a","i","l","t","o",":","c","@","d",".","c","o","m">>

\* "; tag=value", or nothing when the value is <<>> (the tag is left out)
Segment(tag, value) ==
    IF value = <<>> THEN <<>> ELSE <<";", " ">> \o tag \o <<"=">> \o value

\* the values each tag takes in the generated records; <<>> leaves the tag out
PValues == {<<>>, S_reject, S_quarantine, S_none, <<"r","e","j">>}
RuaValues == {<<>>, S_mailtoA}
RufValues == {<<>>, S_mailtoC}
SpValues == {<<>>, S_reject, S_none}
AdkimValues == {<<>>, S_s}
AspfValues == {<<"r">>, S_s}
PctNumbers == (0 - PctOver)..(100 + PctOver)
PctValues == {<<>>} \cup {ToDecimal(n) : n \in PctNumbers}
\* texts parseInt reads in part or not at all
OddNumbers == {<<"a","b","c">>, <<"5","0","a">>, <<"0","x","1","0">>, <<"-">>,
               <<"+","7">>, <<"0","0">>, <<"-","0">>}
RiValues == {<<>>, <<"8","6","4","0","0">>, <<"3","6","0","0">>, <<"0">>, <<"-","6","0">>}

DmarcRecordOf(p, rua, ruf, sp, pct, adkim, aspf, ri) ==
    S_vDMARC1 \o Segment(S_p, p) \o Segment(S_rua, rua) \o Segment(S_ruf, ruf)
    \o Segment(S_sp, sp) \o Segment(S_pct, pct) \o Segment(S_adkim, adkim)
    \o Segment(S_aspf, aspf) \o Segment(S_ri, ri)

\* every combination of the scoring tags
ScoringRecords ==
    {DmarcRecordOf(p, rua, ruf, sp, pct, adkim, aspf, <<>>) :
        p \in PValues, rua \in RuaValues, ruf \in RufValues, sp \in SpValues,
        pct \in PctValues, adkim \in AdkimValues, aspf \in AspfValues}

\* records whose pct and ri exercise parseInt
NumericRecords ==
    {DmarcRecordOf(S_none, <<>>, <<>>, <<>>, pct, <<>>, <<>>, ri) :
        pct \in PctValues \cup OddNumbers, ri \in RiValues \cup OddNumbers}

\* records holding v=DMARC1 that parseDMARC rejects: a later v tag of another
\* version, and no v tag at all
InvalidRecords ==
    {S_vDMARC1 \o <<";"," ","v","=","s","p","f","1">>,
     <<"p","=">> \o S_reject \o <<";"," ","x","=">> \o S_vDMARC1,
     <<"x">> \o S_vDMARC1 \o <<";"," ","p","=">> \o S_none}

\* segments with upper-case and unknown keys, values holding '=', and
\* segments without a key or without a value
TagSegments ==
    {<<"P","=">> \o S_reject,
     <<"X","-","C","u","s","t","o","m","=","a","b","c">>,
     S_rua \o <<"=">> \o S_mailtoA \o <<"?","x","=","1">>,
     <<"f","o","=","1">>,
     <<"p","=">>,
     <<"=","x">>,
     <<"n","o","e","q">>,
     <<"x","=","=","y">>}

\* v=DMARC1 followed by up to two of these segments
TagRecords ==
    {S_vDMARC1} \cup
    {S_vDMARC1 \o <<";"," ">> \o a : a \in TagSegments} \cup
    {S_vDMARC1 \o <<";"," ">> \o a \o <<";"," ">> \o b : a, b \in TagSegments}

DmarcRecords == ScoringRecords \cup NumericRecords \cup InvalidRecords \cup TagRecords

\* policies the library may return instead of throwing
LibPolicies ==
    {EmptyPolicy,
     Put(EmptyPolicy, S_p, S_reject),
     Put(EmptyPolicy, S_v, <<"s","p","f","1">>),
     Put(EmptyPolicy, S_v, S_DMARC1),
     Put(Put(Put(EmptyPolicy, S_v, S_DMARC1), S_p, S_reject), S_pct, 0 - 5000),
     Put(Put(Put(EmptyPolicy, S_v, S_DMARC1), S_p, S_none), S_pct, 5000),
     Put(Put(Put(Put(Put(EmptyPolicy, S_v, S_DMARC1), S_p, S_reject),
         S_rua, <<S_mailtoA>>), S_ruf, <<S_mailtoC>>), S_sp, S_reject)}

LibOutcomes == {LibThrows, LibNull} \cup {LibObject(policy) : policy \in LibPolicies}

\* records analysed under every library outcome
LibRecords ==
    {DmarcRecordOf(p, <<>>, <<>>, <<>>, pct, <<>>, <<>>, <<>>) :
        p \in {S_reject, S_none}, pct \in {<<>>, <<"5","0">>}} \cup InvalidRecords

VerifierResults ==
    {NoVerifierResult,
     [present |-> TRUE, result |-> "pass", info |-> ""],
     [present |-> TRUE, result |-> "fail", info |-> "dmarc=fail"],
     [present |-> TRUE, result |-> "", info |-> ""]}

Idle == [idle |-> TRUE]

DmarcIdle ==
    /\ dmarcPc = "idle" /\ dmarcRecord = <<>>
    /\ libParse = LibThrows /\ dmarcAnalysis = Idle

InitDMARCVars ==
    /\ dmarcPc = "record"
    /\ dmarcAnalysis = Idle
    /\ \/ dmarcRecord \in DmarcRecords /\ libParse = LibThrows
       \/ dmarcRecord \in LibRecords /\ libParse \in LibOutcomes

\* the envelope of a successful analysis: {success: true, rawRecord, ...analysis}
DmarcSuccess(record, analysis) ==
    [success |-> TRUE, rawRecord |-> record, error |-> "",
     parsed |-> analysis.parsed, warnings |-> analysis.warnings,
     recommendations |-> analysis.recommendations, score |-> analysis.score]

\* a failure that carries a score
FailureWithScore(message) ==
    [success |-> FALSE, error |-> message,
     score |-> [value |-> 0, outOf |-> 10, level |-> "Poor", details |-> <<>>]]

\* the envelope of the catch: {success: false, error: error.message}
Failure(message) == [success |-> FALSE, error |-> message]

\* analyzeDMARC from the record on: enrichDMARC(parseDMARC(dmarcRecord),
\* dmarcResult), or the catch of what parseDMARC throws
AnalyzeDMARCRecord ==
    /\ dmarcPc = "record"
    /\ \E r \in {parseDMARC(dmarcRecord, libParse)} :
           \/ /\ r.ok
              /\ \E dmarcResult \in VerifierResults :
                    dmarcAnalysis' =
                        DmarcSuccess(dmarcRecord, enrichDMARC(r.parsed, dmarcResult))
              /\ dmarcPc' = "done"
           \/ /\ ~r.ok
              /\ dmarcAnalysis' = Failure(r.error)
              /\ dmarcPc' = "failed"
    /\ UNCHANGED <<dmarcRecord, libParse, spfVars, dkimVars, mxVars, serviceVars, compVars, webVars>>

(***************************************************************************)
(* SPF: analyzeSPFRecord.                                                  *)
(***************************************************************************)
S_vspf1 == <<"v","=","s","p","f","1">>
S_include == <<"i","n","c","l","u","d","e",":">>
S_a == <<"a">>
S_mx == <<"m","x">>
S_softAll == <<"~","a","l","l">>
S_hardAll == <<"-","a","l","l">>
S_neutralAll == <<"?","a","l","l">>

\* record.split(' ').filter(part => part !== 'v=spf1')
Mechanisms(record) == SelectSeq(Split(record, " "), LAMBDA part : part # S_vspf1)

\* mechanisms.some(m => m.startsWith(prefix))
SomeStartsWith(mechanisms, prefix) ==
    \E i \in 1..Len(mechanisms) : StartsWith(mechanisms[i], prefix)

\* the first mechanism taken for the ending
EndingIsFirst(mechanisms) ==
    IF mechanisms = <<>> THEN <<>> ELSE mechanisms[1]

\* mechanisms[mechanisms.length - 1]; <<>> stands for undefined, which like
\* the empty token equals none of the three endings
Ending(mechanisms) ==
    IF mechanisms = <<>> THEN <<>> ELSE mechanisms[Len(mechanisms)]

EndingPoints(ending) ==
    IF ending = S_softAll THEN (3 * Scale) \div 2
    ELSE IF ending = S_hardAll THEN 2 * Scale
    ELSE IF ending = S_neutralAll THEN Scale \div 2
    ELSE 0

\* score.base of analyzeSPFRecord for a record that starts with v=spf1
SpfBase(mechanisms) ==
    Scale
    + (IF SomeStartsWith(mechanisms, S_include) THEN Scale ELSE 0)
    + (IF SomeStartsWith(mechanisms, S_a) \/ SomeStartsWith(mechanisms, S_mx)
       THEN Scale ELSE 0)
    + EndingPoints(Ending(mechanisms))

\* the level of an SPF or DKIM finalScore: >= 4 Excellent, >= 3 Good, >= 2 Fair
Level5(finalScore) ==
    IF finalScore >= 4 * Scale THEN "Excellent"
    ELSE IF finalScore >= 3 * Scale THEN "Good"
    ELSE IF finalScore >= 2 * Scale THEN "Fair"
    ELSE "Poor"

SpfDetails(mechanisms) ==
    <<"Valid SPF record format (+1 point)">>
    \o (IF SomeStartsWith(mechanisms, S_include)
        THEN <<"Uses include mechanism (+1 point)">> ELSE <<>>)
    \o (IF SomeStartsWith(mechanisms, S_a) \/ SomeStartsWith(mechanisms, S_mx)
        THEN <<"Uses a/mx mechanism (+1 point)">> ELSE <<>>)
    \o (IF Ending(mechanisms) = S_softAll
        THEN <<"Soft fail policy (~all) (+1.5 points)">>
        ELSE IF Ending(mechanisms) = S_hardAll
        THEN <<"Hard fail policy (-all) (+2 points)">>
        ELSE IF Ending(mechanisms) = S_neutralAll
        THEN <<"Neutral policy (?all) (+0.5 points)">>
        ELSE <<>>)

analyzeSPFRecord(record, spfResult) ==
    IF ~StartsWith(record, S_vspf1)
    THEN [parsed |-> <<>>,
          warnings |-> <<"Invalid SPF record format">>,
          recommendations |-> <<>>,
          score |-> [value |-> 0, outOf |-> 5, level |-> "Poor", details |-> <<>>]]
    ELSE LET mechanisms == Mechanisms(record)
             ending == Ending(mechanisms)
             noAll == ending \notin {S_softAll, S_hardAll, S_neutralAll}
             finalScore == Clamp(SpfBase(mechanisms), 5)
         IN  [parsed |-> mechanisms,
              warnings |->
                  IF noAll THEN <<"SPF record should end with an \"all\" mechanism">>
                  ELSE <<>>,
              recommendations |->
                  IF ending = S_neutralAll
                  THEN <<"Consider using ~all or -all for better security">>
                  ELSE IF noAll
                  THEN <<"Add ~all or -all at the end of your SPF record">>
                  ELSE <<>>,
              score |-> [value |-> RoundTenths(finalScore),
                         outOf |-> 5,
                         level |-> Level5(finalScore),
                         details |-> SpfDetails(mechanisms)
                                     \o VerifierDetails(
                                            "Mailauth SPF check: ${status.result}",
                                            "", spfResult)]]

(***************************************************************************)
(* The SPF records the analysis is run on: a first token, then up to       *)
(* MaxSpfTokens tokens, each after one space.                              *)
(***************************************************************************)
S_includeGoogle == <<"i","n","c","l","u","d","e",":","_","s","p","f",".",
                     "g","o","o","g","l","e",".","c","o","m">>

SpfTokens ==
    {S_includeGoogle, S_a, S_mx, S_softAll, S_hardAll, S_neutralAll,
     <<"a","l","l">>, <<"i","p","4",":","1",".","2",".","3",".","4">>,
     <<>>, S_vspf1, <<"r","e","d","i","r","e","c","t","=","x">>}

SpfFirstTokens == {S_vspf1, S_vspf1 \o <<"x">>, <<"v","=","s","p","f","2">>}

SpfRecords ==
    {Join(<<first>> \o rest, <<" ">>) :
        first \in SpfFirstTokens,
        rest \in UNION {[1..n -> SpfTokens] : n \in 0..MaxSpfTokens}}

SpfIdle == spfPc = "idle" /\ spfRecord = <<>> /\ spfAnalysis = Idle

InitSPFVars ==
    /\ spfPc = "record"
    /\ spfRecord \in SpfRecords
    /\ spfAnalysis = Idle

\* analyzeSPF from the record on: analyzeSPFRecord(spfRecord, mailauthResult)
AnalyzeSPFRecord ==
    /\ spfPc = "record"
    /\ \E mailauthResult \in VerifierResults :
          spfAnalysis' = analyzeSPFRecord(spfRecord, mailauthResult)
    /\ spfPc' = "done"
    /\ UNCHANGED <<spfRecord, dmarcVars, dkimVars, mxVars, serviceVars, compVars, webVars>>
(***************************************************************************)
(* DKIM: analyzeDKIMRecord.                                                *)
(***************************************************************************)
S_vDKIM1 == <<"v","=","D","K","I","M","1">>
S_krsa == <<"k","=","r","s","a">>
S_pEq == <<"p","=">>
S_pEmpty == <<"p","=",";">>
S_hsha256 == <<"h","=","s","h","a","2","5","6">>
S_hsha1 == <<"h","=","s","h","a","1">>

\* the record holds one of the three markers
IsDkimRecord(record) ==
    Includes(record, S_vDKIM1) \/ Includes(record, S_krsa) \/ Includes(record, S_pEq)

\* the empty-key form p=; is not looked for
HasPublicKeyAnyForm(record) == Includes(record, S_pEq)

\* record.includes('p=') && !record.includes('p=;')
HasPublicKey(record) == Includes(record, S_pEq) /\ ~Includes(record, S_pEmpty)

HashPoints(record) ==
    IF Includes(record, S_hsha256) THEN Scale
    ELSE IF Includes(record, S_hsha1) THEN Scale \div 2
    ELSE 0

\* score.base of analyzeDKIMRecord for a record with a marker
DkimBase(record) ==
    Scale
    + (IF HasPublicKey(record) THEN 2 * Scale ELSE 0)
    + (IF Includes(record, S_krsa) THEN Scale ELSE 0)
    + HashPoints(record)

DkimDetails(record) ==
    <<"Valid DKIM record found (+1 point)">>
    \o (IF HasPublicKey(record) THEN <<"Public key present (+2 points)">> ELSE <<>>)
    \o (IF Includes(record, S_krsa) THEN <<"RSA key type (+1 point)">> ELSE <<>>)
    \o (IF Includes(record, S_hsha256) THEN <<"SHA-256 hash algorithm (+1 point)">>
        ELSE IF Includes(record, S_hsha1) THEN <<"SHA-1 hash algorithm (+0.5 points)">>
        ELSE <<>>)

analyzeDKIMRecord(record, dkimResult) ==
    IF ~IsDkimRecord(record)
    THEN [warnings |-> <<"Invalid DKIM record format">>,
          recommendations |-> <<>>,
          score |-> [value |-> 0, outOf |-> 5, level |-> "Poor", details |-> <<>>]]
    ELSE LET finalScore == Clamp(DkimBase(record), 5)
         IN  [warnings |->
                  IF HasPublicKey(record) THEN <<>>
                  ELSE <<"No public key found in DKIM record">>,
              recommendations |->
                  IF ~Includes(record, S_hsha256) /\ Includes(record, S_hsha1)
                  THEN <<"Consider upgrading to SHA-256 for better security">>
                  ELSE <<>>,
              score |-> [value |-> RoundTenths(finalScore),
                         outOf |-> 5,
                         level |-> Level5(finalScore),
                         details |-> DkimDetails(record)
                                     \o VerifierDetails(
                                            "Mailauth DKIM check: ${status.result}",
                                            "DKIM info: ${info}", dkimResult)]]

(***************************************************************************)
(* The DKIM records the analysis is run on: up to MaxDkimParts fragments,  *)
(* concatenated as they come.                                              *)
(***************************************************************************)
DkimParts ==
    {S_vDKIM1 \o <<";">>, S_krsa \o <<";">>, S_pEq \o <<"A","B">>, S_pEq, <<";">>,
     S_hsha256, S_hsha1, <<"t","=","y">>}

DkimRecords ==
    {Join(parts, <<>>) : parts \in UNION {[1..n -> DkimParts] : n \in 0..MaxDkimParts}}

DkimIdle == dkimPc = "idle" /\ dkimKey = <<>> /\ dkimAnalysis = Idle

InitDKIMVars ==
    /\ dkimPc = "record"
    /\ dkimKey \in DkimRecords
    /\ dkimAnalysis = Idle

\* analyzeDKIM from the record on: analyzeDKIMRecord(dkimKey, mailauthResult)
AnalyzeDKIMRecord ==
    /\ dkimPc = "record"
    /\ \E mailauthResult \in VerifierResults :
          dkimAnalysis' = analyzeDKIMRecord(dkimKey, mailauthResult)
    /\ dkimPc' = "done"
    /\ UNCHANGED <<dkimKey, dmarcVars, spfVars, mxVars, serviceVars, compVars, webVars>>

(***************************************************************************)
(* MX: analyzeMX and analyzeMXRecords.                                     *)
(***************************************************************************)
RECURSIVE InsertByPriority(_, _)
\* r placed after every record whose priority is not above its own
InsertByPriority(sorted, r) ==
    IF sorted = <<>> THEN <<r>>
    ELSE IF sorted[1].priority <= r.priority
    THEN <<sorted[1]>> \o InsertByPriority(Tail(sorted), r)
    ELSE <<r>> \o sorted

\* the records left in the resolver's order
Unsorted(records) == records

RECURSIVE SortByPriority(_)
\* mxRecords.sort((a, b) => a.priority - b.priority): Array.prototype.sort is
\* stable, records of equal priority keep the resolver's order
SortByPriority(records) ==
    IF records = <<>> THEN <<>>
    ELSE InsertByPriority(SortByPriority(SubSeq(records, 1, Len(records) - 1)),
                          records[Len(records)])

\* [...new Set(priorities)].length
UniquePriorities(records) ==
    Cardinality({records[i].priority : i \in 1..Len(records)})

\* the redundancy point given for two distinct priorities, not two records
MxBaseDistinctRedundancy(records) ==
    Scale
    + (IF UniquePriorities(records) >= 2 THEN Scale ELSE 0)
    + (IF UniquePriorities(records) = Len(records) THEN Scale ELSE 0)

\* a single record does not earn the priority point
MxBaseNoSinglePoint(records) ==
    Scale
    + (IF Len(records) >= 2 THEN Scale ELSE 0)
    + (IF Len(records) >= 2 /\ UniquePriorities(records) = Len(records)
       THEN Scale ELSE 0)

\* score.base of analyzeMXRecords for a non-empty list, in 1/Scale
MxBase(records) ==
    Scale
    + (IF Len(records) >= 2 THEN Scale ELSE 0)
    + (IF UniquePriorities(records) = Len(records) THEN Scale ELSE 0)

\* the level of an MX finalScore: >= 2.5 Excellent, >= 2 Good, >= 1 Fair
MxLevel(finalScore) ==
    IF 2 * finalScore >= 5 * Scale THEN "Excellent"
    ELSE IF finalScore >= 2 * Scale THEN "Good"
    ELSE IF finalScore >= Scale THEN "Fair"
    ELSE "Poor"

analyzeMXRecords(records) ==
    IF Len(records) = 0
    THEN [warnings |-> <<"No MX records found">>,
          recommendations |-> <<>>,
          score |-> [value |-> 0, outOf |-> 3, level |-> "Poor", details |-> <<>>]]
    ELSE LET finalScore == Clamp(MxBase(records), 3)
             distinct == UniquePriorities(records) = Len(records)
         IN  [warnings |->
                  IF distinct THEN <<>>
                  ELSE <<"Some MX records have the same priority">>,
              recommendations |->
                  IF Len(records) >= 2 THEN <<>>
                  ELSE <<"Consider adding backup MX records for redundancy">>,
              score |-> [value |-> RoundTenths(finalScore),
                         outOf |-> 3,
                         level |-> MxLevel(finalScore),
                         details |->
                             <<"MX records present (+1 point)">>
                             \o (IF Len(records) >= 2
                                 THEN <<"Multiple MX records for redundancy (+1 point)">>
                                 ELSE <<>>)
                             \o (IF distinct
                                 THEN <<"Proper priority configuration (+1 point)">>
                                 ELSE <<>>)]]

\* the envelope of a successful analyzeMX
MxSuccess(sortedMx, analysis) ==
    [success |-> TRUE, error |-> "", records |-> sortedMx,
     warnings |-> analysis.warnings, recommendations |-> analysis.recommendations,
     score |-> analysis.score]

(***************************************************************************)
(* The answers of resolveMx: up to MaxMx records, in any order.            *)
(***************************************************************************)
Priorities == {10 * k : k \in 0..MaxPriorityStep}
Exchanges == {"mx1.example.com", "mx2.example.com"}
MxRecord == [exchange : Exchanges, priority : Priorities]
MxAnswers == UNION {[1..n -> MxRecord] : n \in 0..MaxMx}

MxIdle == mxPc = "idle" /\ mxRecords = <<>> /\ mxResult = Idle

InitMXVars ==
    /\ mxPc = "resolved"
    /\ mxRecords \in MxAnswers
    /\ mxResult = Idle

\* analyzeMX once resolveMx has answered: no record is a failure, else the
\* records are sorted, analysed and returned
AnalyzeMXAnswer ==
    /\ mxPc = "resolved"
    /\ \/ /\ Len(mxRecords) = 0
          /\ mxResult' = Failure("No MX records found")
          /\ mxPc' = "failed"
       \/ /\ Len(mxRecords) > 0
          /\ LET sortedMx == SortByPriority(mxRecords)
             IN  mxResult' = MxSuccess(sortedMx, analyzeMXRecords(sortedMx))
          /\ mxPc' = "done"
    /\ UNCHANGED <<mxRecords, dmarcVars, spfVars, dkimVars, serviceVars, compVars, webVars>>

(***************************************************************************)
(* The four protocol analyzers as async functions: what each one settles   *)
(* with, given what its collaborators (the DNS resolver, the mailauth      *)
(* verifier, the dmarc-parse library) do.                                  *)
(***************************************************************************)
\* a collaborator call returns a value or raises
Returns(value) == [kind |-> "returns", value |-> value]
Raises(thrown) == [kind |-> "raises", thrown |-> thrown]

\* what can be thrown, or be the reason of a rejection: an Error with its
\* message, a value that is not an Error (the string 'boom'), or undefined
ErrorOf(message) == [type |-> "Error", message |-> message]
NonErrorValue == [type |-> "string", message |-> ""]
NoReason == [type |-> "undefined", message |-> ""]

\* the property .message of a value that has none
UndefinedValue == "(undefined)"

\* the TypeError of reading .message of undefined
S_cannotReadMessage == "Cannot read properties of undefined (reading 'message')"

\* x.message: a TypeError when x is undefined
ReadMessage(thrown) ==
    IF thrown.type = "undefined" THEN Raises(ErrorOf(S_cannotReadMessage))
    ELSE IF thrown.type = "Error" THEN Returns(thrown.message)
    ELSE Returns(UndefinedValue)

\* how a promise settles
Fulfilled(value) == [status |-> "fulfilled", value |-> value]
Rejected(reason) == [status |-> "rejected", reason |-> reason]

\* the outer catch of the analyzers returns a generic envelope
CatchErrorGeneric(thrown) == Fulfilled(Failure("Analysis failed"))

\* catch (error) { return { success: false, error: error.message, domain } }:
\* when error.message itself throws, the async function rejects
CatchError(thrown) ==
    LET message == ReadMessage(thrown)
    IN  IF message.kind = "raises" THEN Rejected(message.thrown)
        ELSE Fulfilled(Failure(message.value))

\* only the first segment of each TXT entry is looked at
FlatRecordsFirstChunk(txtRecords) ==
    [i \in 1..Len(txtRecords) |-> txtRecords[i][1]]

\* txtRecords.map(entry => entry.join(''))
FlatRecords(txtRecords) ==
    [i \in 1..Len(txtRecords) |-> Join(txtRecords[i], <<>>)]

\* what the verifier raises is not caught
VerifierCallUncaught(verifier) ==
    IF verifier.kind = "returns" THEN Returns(verifier.value)
    ELSE Raises(verifier.thrown)

\* the verifier call in its own try/catch: the result, or null when it
\* raised; console.log reads the .message of what was raised
VerifierCall(verifier) ==
    IF verifier.kind = "returns" THEN Returns(verifier.value)
    ELSE LET message == ReadMessage(verifier.thrown)
         IN  IF message.kind = "raises" THEN message
             ELSE Returns(NoVerifierResult)

\* the envelope of a lookup that found no record
NotFound(message, recommendations) ==
    [success |-> FALSE, error |-> message, recommendations |-> recommendations]

\* {success: true, rawRecord, dmarcResult, ...analysis} of analyzeDMARC
DmarcEnvelope(record, dmarcResult, analysis) ==
    [success |-> TRUE, rawRecord |-> record, dmarcResult |-> dmarcResult,
     parsed |-> analysis.parsed, warnings |-> analysis.warnings,
     recommendations |-> analysis.recommendations, score |-> analysis.score]

analyzeDMARC(lookup, lib, verifier) ==
    IF lookup.kind = "raises" THEN CatchError(lookup.thrown)
    ELSE LET found == SelectSeq(FlatRecords(lookup.value),
                                LAMBDA txt : StartsWith(txt, S_vDMARC1))
         IN  IF found = <<>>
             THEN Fulfilled([success |-> FALSE, error |-> "DMARC record not found"])
             ELSE LET dmarcResult == VerifierCall(verifier)
                      parsed == parseDMARC(found[1], lib)
                  IN  IF dmarcResult.kind = "raises"
                      THEN CatchError(dmarcResult.thrown)
                      ELSE IF ~parsed.ok THEN CatchError(ErrorOf(parsed.error))
                      ELSE Fulfilled(DmarcEnvelope(found[1], dmarcResult.value,
                               enrichDMARC(parsed.parsed, dmarcResult.value)))

\* the collaborators one analyzeDMARC call invokes, in order: the resolver
\* with the name it is asked, then the verifier and parseDMARC with its one
\* or two parsers once a record was found
DmarcInvocations(lookup, lib, verifier) ==
    <<"resolver.resolveTxt _dmarc.<domain>">> \o
    (IF lookup.kind = "raises" THEN <<>>
     ELSE IF SelectSeq(FlatRecords(lookup.value),
                       LAMBDA txt : StartsWith(txt, S_vDMARC1)) = <<>>
     THEN <<>>
     ELSE <<"mailauth.dmarc.verify">> \o
          (IF VerifierCall(verifier).kind = "raises" THEN <<>>
           ELSE IF UsesCustomParser(lib) THEN <<"dmarcParse", "customDMARCParse">>
           ELSE <<"dmarcParse">>))

SpfNotFoundRecommendations ==
    <<"Add an SPF record to your domain to specify which mail servers are authorized to send emails",
      "Example: \"v=spf1 include:_spf.google.com ~all\" for Google Workspace">>

\* {success: true, rawRecord, mailauthResult, ...analysis} of analyzeSPF
SpfEnvelope(record, mailauthResult, analysis) ==
    [success |-> TRUE, rawRecord |-> record, mailauthResult |-> mailauthResult,
     parsed |-> analysis.parsed, warnings |-> analysis.warnings,
     recommendations |-> analysis.recommendations, score |-> analysis.score]

analyzeSPF(lookup, verifier) ==
    IF lookup.kind = "raises" THEN CatchError(lookup.thrown)
    ELSE LET found == SelectSeq(FlatRecords(lookup.value),
                                LAMBDA txt : StartsWith(txt, S_vspf1))
         IN  IF found = <<>>
             THEN Fulfilled(NotFound("SPF record not found", SpfNotFoundRecommendations))
             ELSE LET mailauthResult == VerifierCall(verifier)
                  IN  IF mailauthResult.kind = "raises"
                      THEN CatchError(mailauthResult.thrown)
                      ELSE Fulfilled(SpfEnvelope(found[1], mailauthResult.value,
                               analyzeSPFRecord(found[1], mailauthResult.value)))

S_dkimNotFound == "DKIM record not found for selector 'default'"

DkimNoRecordRecommendations ==
    <<"Set up DKIM signing for your domain",
      "Common selectors to try: default, google, mail, dkim",
      "Contact your email provider for DKIM setup instructions">>

DkimLookupFailedRecommendations ==
    <<"Try common selectors: default, google, mail, dkim, selector1, selector2",
      "Check with your email provider for the correct DKIM selector",
      "Ensure DKIM is properly configured in your DNS">>

\* {success: true, rawRecord, mailauthResult, ...analysis} of analyzeDKIM
DkimEnvelope(record, mailauthResult, analysis) ==
    [success |-> TRUE, rawRecord |-> record, mailauthResult |-> mailauthResult,
     warnings |-> analysis.warnings,
     recommendations |-> analysis.recommendations, score |-> analysis.score]

\* whatever is raised inside the inner try, by the lookup or by the reading of
\* what the verifier raised, ends in the inner catch, which reads no message
analyzeDKIM(lookup, verifier) ==
    IF lookup.kind = "raises"
    THEN Fulfilled(NotFound(S_dkimNotFound, DkimLookupFailedRecommendations))
    ELSE LET found == SelectSeq(FlatRecords(lookup.value), IsDkimRecord)
         IN  IF found = <<>>
             THEN Fulfilled(NotFound(S_dkimNotFound, DkimNoRecordRecommendations))
             ELSE LET mailauthResult == VerifierCall(verifier)
                  IN  IF mailauthResult.kind = "raises"
                      THEN Fulfilled(NotFound(S_dkimNotFound,
                                              DkimLookupFailedRecommendations))
                      ELSE Fulfilled(DkimEnvelope(found[1], mailauthResult.value,
                               analyzeDKIMRecord(found[1], mailauthResult.value)))

MxNotFoundRecommendations ==
    <<"Add MX records to enable email delivery to your domain",
      "MX records specify which mail servers handle email for your domain">>

\* {success: true, records: sortedMx, ...analysis} of analyzeMX
MxEnvelope(sortedMx, analysis) ==
    [success |-> TRUE, records |-> sortedMx,
     warnings |-> analysis.warnings, recommendations |-> analysis.recommendations,
     score |-> analysis.score]

analyzeMX(lookup) ==
    IF lookup.kind = "raises" THEN CatchError(lookup.thrown)
    ELSE IF Len(lookup.value) = 0
    THEN Fulfilled(NotFound("No MX records found", MxNotFoundRecommendations))
    ELSE LET sortedMx == SortByPriority(lookup.value)
         IN  Fulfilled(MxEnvelope(sortedMx, analyzeMXRecords(sortedMx)))

(***************************************************************************)
(* The service: one process answers one analysis call after another.  The  *)
(* log keeps, for each call served, what the collaborators did and what    *)
(* the analyzer settled with.                                              *)
(***************************************************************************)
\* a TXT entry in one chunk, and in two chunks cut inside the version tag
OneChunk(record) == <<record>>
TwoChunks(record) == <<SubSeq(record, 1, 4), SubSeq(record, 5, Len(record))>>

S_enotfound == "queryTxt ENOTFOUND example.com"
S_etimeout == "queryMx ETIMEOUT example.com"

\* the DMARC records served: a full policy, a monitoring policy, and a record
\* parseDMARC rejects
ServedReject ==
    DmarcRecordOf(S_reject, S_mailtoA, <<>>, S_reject, <<"5","0">>, S_s, <<>>, <<>>)
ServedNone == DmarcRecordOf(S_none, <<>>, <<>>, <<>>, <<>>, <<>>, <<>>, <<>>)
ServedInvalid == S_vDMARC1 \o <<";"," ","v","=","s","p","f","1">>
ServedSpf == Join(<<S_vspf1, S_includeGoogle, S_softAll>>, <<" ">>)
ServedDkim == S_vDKIM1 \o <<";">> \o S_krsa \o <<";">> \o S_pEq \o <<"A","B">>

\* what the verifier does: returns nothing, returns a result, or raises
VerifierOutcomes ==
    {Returns(NoVerifierResult),
     Returns([present |-> TRUE, result |-> "fail", info |-> "dmarc=fail"]),
     Raises(ErrorOf("verifier unavailable"))}

\* a call: the analyzer, and what its collaborators do during the call
Call(protocol, lookup, lib, verifier) ==
    [protocol |-> protocol, lookup |-> lookup, lib |-> lib, verifier |-> verifier]

DmarcCalls ==
    {Call("dmarc", lookup, LibThrows, Returns(NoVerifierResult)) :
        lookup \in {Raises(ErrorOf(S_enotfound)),
                    Returns(<<>>),
                    Returns(<<OneChunk(ServedSpf)>>),
                    Returns(<<OneChunk(ServedInvalid)>>)}}
    \cup {Call("dmarc", lookup, LibThrows, verifier) :
            lookup \in {Returns(<<OneChunk(ServedSpf), TwoChunks(ServedReject)>>),
                        Returns(<<OneChunk(ServedNone), OneChunk(ServedReject)>>)},
            verifier \in VerifierOutcomes}
    \cup {Call("dmarc", Returns(<<OneChunk(ServedNone)>>),
               LibObject(Put(EmptyPolicy, S_v, <<"s","p","f","1">>)),
               Returns(NoVerifierResult))}

SpfCalls ==
    {Call("spf", lookup, LibThrows, Returns(NoVerifierResult)) :
        lookup \in {Raises(ErrorOf(S_enotfound)), Returns(<<OneChunk(ServedDkim)>>)}}
    \cup {Call("spf", Returns(<<OneChunk(ServedDkim), TwoChunks(ServedSpf)>>),
               LibThrows, verifier) : verifier \in VerifierOutcomes}

DkimCalls ==
    {Call("dkim", lookup, LibThrows, Returns(NoVerifierResult)) :
        lookup \in {Raises(ErrorOf(S_enotfound)), Returns(<<OneChunk(ServedSpf)>>)}}
    \cup {Call("dkim", Returns(<<OneChunk(ServedSpf), TwoChunks(ServedDkim)>>),
               LibThrows, verifier) : verifier \in VerifierOutcomes}

MxCalls ==
    {Call("mx", lookup, LibThrows, Returns(NoVerifierResult)) :
        lookup \in {Raises(ErrorOf(S_etimeout)),
                    Returns(<<>>),
                    Returns(<<[exchange |-> "mx2.example.com", priority |-> 20],
                              [exchange |-> "mx1.example.com", priority |-> 10]>>)}}

\* the call and what its analyzer settled with
Served(call, settlement) == [call |-> call, settlement |-> settlement]

ServiceIdle == servicePc = "idle" /\ served = <<>> /\ dmarcInvoked = <<>>

InitServiceVars == servicePc = "listening" /\ served = <<>> /\ dmarcInvoked = <<>>

CallAnalyzeDMARC ==
    /\ servicePc = "listening"
    /\ Len(served) < MaxRequests
    /\ \E call \in DmarcCalls :
          /\ served' = Append(served,
                 Served(call, analyzeDMARC(call.lookup, call.lib, call.verifier)))
          /\ dmarcInvoked' = Append(dmarcInvoked,
                 DmarcInvocations(call.lookup, call.lib, call.verifier))
    /\ UNCHANGED <<servicePc, dmarcVars, spfVars, dkimVars, mxVars, compVars, webVars>>

CallAnalyzeSPF ==
    /\ servicePc = "listening"
    /\ Len(served) < MaxRequests
    /\ \E call \in SpfCalls :
          served' = Append(served, Served(call, analyzeSPF(call.lookup, call.verifier)))
    /\ UNCHANGED <<servicePc, dmarcInvoked, dmarcVars, spfVars, dkimVars, mxVars, compVars, webVars>>

CallAnalyzeDKIM ==
    /\ servicePc = "listening"
    /\ Len(served) < MaxRequests
    /\ \E call \in DkimCalls :
          served' = Append(served, Served(call, analyzeDKIM(call.lookup, call.verifier)))
    /\ UNCHANGED <<servicePc, dmarcInvoked, dmarcVars, spfVars, dkimVars, mxVars, compVars, webVars>>

CallAnalyzeMX ==
    /\ servicePc = "listening"
    /\ Len(served) < MaxRequests
    /\ \E call \in MxCalls :
          served' = Append(served, Served(call, analyzeMX(call.lookup)))
    /\ UNCHANGED <<servicePc, dmarcInvoked, dmarcVars, spfVars, dkimVars, mxVars, compVars, webVars>>

(***************************************************************************)
(* The composite analyzer: analyzeEmailSecurity starts the four analyses,  *)
(* awaits Promise.allSettled and folds the four results into one score.    *)
(***************************************************************************)
Protocols == {"dmarc", "spf", "dkim", "mx"}

NotStarted == [status |-> "not started"]
Pending == [status |-> "pending"]

\* a rejected analysis is given the envelope of a failure without its message
ToResultLosingMessage(settlement) ==
    IF settlement.status = "fulfilled" THEN Returns(settlement.value)
    ELSE Returns([success |-> FALSE, error |-> UndefinedValue])

\* r.status === 'fulfilled' ? r.value : { success: false, error: r.reason.message }
ToResult(settlement) ==
    IF settlement.status = "fulfilled" THEN Returns(settlement.value)
    ELSE LET message == ReadMessage(settlement.reason)
         IN  IF message.kind = "raises" THEN message
             ELSE Returns([success |-> FALSE, error |-> message.value])

\* result.success && result.score
Counted(result) == result.success /\ "score" \in DOMAIN result

\* totalScore, in tenths
TotalScore(results) ==
    (IF Counted(results.dmarc) THEN results.dmarc.score.value ELSE 0)
    + (IF Counted(results.spf) THEN results.spf.score.value ELSE 0)
    + (IF Counted(results.dkim) THEN results.dkim.score.value ELSE 0)
    + (IF Counted(results.mx) THEN results.mx.score.value ELSE 0)

\* the maximum of all four protocols, whatever failed
MaxScoreOfAllFour(results) == 23

\* maxScore
MaxScore(results) ==
    (IF Counted(results.dmarc) THEN results.dmarc.score.outOf ELSE 0)
    + (IF Counted(results.spf) THEN results.spf.score.outOf ELSE 0)
    + (IF Counted(results.dkim) THEN results.dkim.score.outOf ELSE 0)
    + (IF Counted(results.mx) THEN results.mx.score.outOf ELSE 0)

\* (totalScore / maxScore) * 10 is computed in IEEE 754 doubles.  The double
\* equals the exact quotient closely enough for every comparison and rounding
\* below, except for these totals (in tenths) and maxima, where the exact
\* quotient is a threshold or a rounding tie and the double falls just below
\* it: 9.2 / 23 and 18.4 / 23 give 3.9999999999999996 and 7.999999999999999,
\* 11.1 / 20 and 11.9 / 20 give 5.549999999999999 and 5.949999999999999
BelowThreshold == {<<92, 23>>, <<184, 23>>}
BelowTie == {<<111, 20>>, <<119, 20>>}

\* overallScore >= threshold
OverallAtLeast(totalScore, maxScore, threshold) ==
    /\ totalScore >= threshold * maxScore
    /\ ~(totalScore = threshold * maxScore /\ <<totalScore, maxScore>> \in BelowThreshold)

\* no maximum is scored as full marks
OverallTenthsFullWhenEmpty(totalScore, maxScore) ==
    IF maxScore > 0 THEN (20 * totalScore + maxScore) \div (2 * maxScore) ELSE 100

\* Math.round(overallScore * 10), overallScore being 0 when maxScore is 0
OverallTenths(totalScore, maxScore) ==
    IF maxScore = 0 THEN 0
    ELSE IF <<totalScore, maxScore>> \in BelowTie THEN (10 * totalScore) \div maxScore
    ELSE (20 * totalScore + maxScore) \div (2 * maxScore)

OverallLevel(totalScore, maxScore) ==
    IF maxScore = 0 THEN "Poor"
    ELSE IF OverallAtLeast(totalScore, maxScore, 8) THEN "Excellent"
    ELSE IF OverallAtLeast(totalScore, maxScore, 6) THEN "Good"
    ELSE IF OverallAtLeast(totalScore, maxScore, 4) THEN "Fair"
    ELSE "Poor"

\* the object analyzeEmailSecurity returns
CompositeResult(results) ==
    [dmarc |-> results.dmarc, spf |-> results.spf,
     dkim |-> results.dkim, mx |-> results.mx,
     overallScore |->
         [value |-> OverallTenths(TotalScore(results), MaxScore(results)),
          outOf |-> 10,
          level |-> OverallLevel(TotalScore(results), MaxScore(results))]]

(***************************************************************************)
(* What the four analyses of a composite call settle with.  An analyzer    *)
(* fulfils with what it returns; a rejection is what line 17 is written    *)
(* for: its reason is an Error, another value, or undefined.               *)
(***************************************************************************)
Rejections ==
    {Rejected(ErrorOf("boom")), Rejected(NonErrorValue), Rejected(NoReason)}

CompositePct == {<<>>, <<"9","5">>, <<"9","0">>, <<"6","0">>, <<"5","5">>}

CompositeDmarcRecords ==
    {DmarcRecordOf(p, reports[1], reports[2], sp, pct, strict, strict, <<>>) :
        p \in {S_reject, S_none},
        reports \in {<<<<>>, <<>>>>, <<S_mailtoA, S_mailtoC>>},
        sp \in {<<>>, S_reject},
        pct \in CompositePct,
        strict \in {<<>>, S_s}}

CompositeLookupFailures == {Raises(ErrorOf(S_enotfound)), Returns(<<>>)}

DmarcSettlements ==
    {analyzeDMARC(Returns(<<OneChunk(record)>>), LibThrows, Returns(NoVerifierResult)) :
        record \in CompositeDmarcRecords \cup {ServedInvalid}}
    \cup {analyzeDMARC(lookup, LibThrows, Returns(NoVerifierResult)) :
            lookup \in CompositeLookupFailures}
    \cup Rejections

CompositeSpfRecords ==
    {ServedSpf,
     Join(<<S_vspf1, S_hardAll>>, <<" ">>),
     Join(<<S_vspf1, S_a, S_mx, S_includeGoogle, S_hardAll>>, <<" ">>)}

SpfSettlements ==
    {analyzeSPF(Returns(<<OneChunk(record)>>), Returns(NoVerifierResult)) :
        record \in CompositeSpfRecords}
    \cup {analyzeSPF(lookup, Returns(NoVerifierResult)) :
            lookup \in CompositeLookupFailures}
    \cup Rejections

CompositeDkimRecords ==
    {ServedDkim, ServedDkim \o <<";">> \o S_hsha256, S_pEmpty}

DkimSettlements ==
    {analyzeDKIM(Returns(<<OneChunk(record)>>), Returns(NoVerifierResult)) :
        record \in CompositeDkimRecords}
    \cup {analyzeDKIM(lookup, Returns(NoVerifierResult)) :
            lookup \in CompositeLookupFailures}
    \cup Rejections

CompositeMxAnswers ==
    {<<[exchange |-> "mx1.example.com", priority |-> 10]>>,
     <<[exchange |-> "mx2.example.com", priority |-> 20],
       [exchange |-> "mx1.example.com", priority |-> 10]>>}

MxSettlements ==
    {analyzeMX(Returns(answer)) : answer \in CompositeMxAnswers}
    \cup {analyzeMX(lookup) : lookup \in CompositeLookupFailures}
    \cup Rejections

SettlementsOf(protocol) ==
    IF protocol = "dmarc" THEN DmarcSettlements
    ELSE IF protocol = "spf" THEN SpfSettlements
    ELSE IF protocol = "dkim" THEN DkimSettlements
    ELSE MxSettlements

CompositeIdle ==
    /\ compPc = "idle"
    /\ settled = [protocol \in Protocols |-> NotStarted]
    /\ composite = Idle

InitCompositeVars ==
    /\ compPc = "called"
    /\ settled = [protocol \in Protocols |-> NotStarted]
    /\ composite = Idle

\* the four calls inside the array literal: each analyzer runs up to its
\* first await, so all four lookups are under way before allSettled is awaited
StartAnalyses ==
    /\ compPc = "called"
    /\ settled' = [protocol \in Protocols |-> Pending]
    /\ compPc' = "awaiting"
    /\ UNCHANGED <<composite, dmarcVars, spfVars, dkimVars, mxVars, serviceVars, webVars>>

\* one of the four promises settles
AnalysisSettles ==
    /\ compPc = "awaiting"
    /\ \E protocol \in Protocols :
          /\ settled[protocol] = Pending
          /\ \E settlement \in SettlementsOf(protocol) :
                settled' = [settled EXCEPT ![protocol] = settlement]
    /\ UNCHANGED <<compPc, composite, dmarcVars, spfVars, dkimVars, mxVars, serviceVars, webVars>>

AllSettled(settlements) ==
    \A protocol \in Protocols :
        settlements[protocol].status \in {"fulfilled", "rejected"}

\* Promise.allSettled fulfils once all four have settled; the rest of
\* analyzeEmailSecurity runs: results.map, the four sums, the return.  What
\* results.map raises rejects the call
AwaitAllSettled ==
    /\ compPc = "awaiting"
    /\ AllSettled(settled)
    /\ \E mapped \in {[protocol \in Protocols |-> ToResult(settled[protocol])]} :
          \/ /\ \A protocol \in Protocols : mapped[protocol].kind = "returns"
             /\ composite' = Fulfilled(CompositeResult(
                                 [protocol \in Protocols |-> mapped[protocol].value]))
             /\ compPc' = "resolved"
          \/ /\ \E protocol \in Protocols : mapped[protocol].kind = "raises"
             /\ composite' = Rejected(ErrorOf(S_cannotReadMessage))
             /\ compPc' = "rejected"
    /\ UNCHANGED <<settled, dmarcVars, spfVars, dkimVars, mxVars, serviceVars, webVars>>

(***************************************************************************)
(* The rate limiter: rateLimitMiddleware and its store, one entry per      *)
(* client IP.  Date.now() is a clock counted in ticks of 30 seconds;       *)
(* requests arrive at any tick, any number of them within one tick.        *)
(***************************************************************************)
\* const limit = 10
Limit == 10
\* const window = 60 * 1000: two ticks of the clock
Window == 2

\* a client that sends as often as it likes, and one that sends a few times
BusyClient == "203.0.113.1"
OtherClient == "203.0.113.2"
ClientIPs == {BusyClient, OtherClient}

\* next() was called, or the 429 response was sent
CallsNext == [next |-> TRUE, status |-> 0, error |-> ""]
TooManyRequests ==
    [next |-> FALSE, status |-> 429,
     error |-> "Too many requests. Please try again later."]

\* the limit is passed only by a count above it
AtLimitExclusive(userData) == userData.count > Limit

\* userData.count >= limit
AtLimit(userData) == userData.count >= Limit

\* rateLimitMiddleware(req, res, next) at Date.now() = now for req.ip = ip:
\* the store it leaves and what it answers
rateLimitMiddleware(store, ip, now) ==
    IF ip \notin DOMAIN store
    THEN [store |-> Put(store, ip, [count |-> 1, resetTime |-> now + Window]),
          response |-> CallsNext]
    ELSE IF now > store[ip].resetTime
    THEN [store |-> Put(store, ip, [count |-> 1, resetTime |-> now + Window]),
          response |-> CallsNext]
    ELSE IF AtLimit(store[ip])
    THEN [store |-> store, response |-> TooManyRequests]
    ELSE [store |-> Put(store, ip, [count |-> store[ip].count + 1,
                                    resetTime |-> store[ip].resetTime]),
          response |-> CallsNext]

\* the request opens a window: the IP has no entry, or its resetTime is past
OpensWindow(store, ip, now) ==
    ip \notin DOMAIN store \/ now > store[ip].resetTime

\* what has been admitted of one IP: since the request that opened its
\* window, at the current tick, and at the tick before
NoneAdmitted == [window |-> 0, now |-> 0, prev |-> 0]

NoRequest == [ip |-> "", response |-> CallsNext]

RateIdle ==
    /\ rlPc = "idle" /\ rlNow = 0 /\ rateLimitStore = <<>>
    /\ rlLast = NoRequest /\ rlOthers = 0
    /\ rlAdmitted = [ip \in ClientIPs |-> NoneAdmitted]

InitRateVars ==
    /\ rlPc = "running" /\ rlNow = 0 /\ rateLimitStore = <<>>
    /\ rlLast = NoRequest /\ rlOthers = 0
    /\ rlAdmitted = [ip \in ClientIPs |-> NoneAdmitted]

\* a request of one client passes through rateLimitMiddleware
HandleRequest ==
    /\ rlPc = "running"
    /\ \E ip \in ClientIPs :
          /\ ip = OtherClient => rlOthers < MaxOtherRequests
          /\ \E r \in {rateLimitMiddleware(rateLimitStore, ip, rlNow)} :
                /\ rateLimitStore' = r.store
                /\ rlLast' = [ip |-> ip, response |-> r.response]
                /\ rlAdmitted' =
                      IF ~r.response.next THEN rlAdmitted
                      ELSE [rlAdmitted EXCEPT ![ip] =
                              [window |-> IF OpensWindow(rateLimitStore, ip, rlNow)
                                          THEN 1 ELSE @.window + 1,
                               now |-> @.now + 1,
                               prev |-> @.prev]]
          /\ rlOthers' = IF ip = OtherClient THEN rlOthers + 1 ELSE rlOthers
    /\ UNCHANGED <<rlPc, rlNow, dmarcVars, spfVars, dkimVars, mxVars,
                   serviceVars, compVars, captchaVars>>

\* 30 seconds pass
TickClock ==
    /\ rlPc = "running"
    /\ rlNow < MaxTick
    /\ rlNow' = rlNow + 1
    /\ rlAdmitted' = [ip \in ClientIPs |->
                         [window |-> rlAdmitted[ip].window,
                          now |-> 0,
                          prev |-> rlAdmitted[ip].now]]
    /\ UNCHANGED <<rlPc, rateLimitStore, rlLast, rlOthers, dmarcVars, spfVars,
                   dkimVars, mxVars, serviceVars, compVars, captchaVars>>

(***************************************************************************)
(* The captcha store: createCaptcha, verifyCaptcha and the cleanup of      *)
(* utils/captcha.js, and the same logic kept by index.js under a probe.    *)
(* A token is the number of the captcha issued (randomUUID never repeats); *)
(* Date.now() is a clock counted in ticks of 5 minutes.  A behaviour is  *)
(* that of one application: index.js, or the router of routes/emailAuth.js *)
(* with utils/captcha.js; each has a store of its own.                     *)
(***************************************************************************)
\* 5 * 60 * 1000: one tick of the clock
Expiry == 1

\* a missing or empty token
NoToken == 0

\* the texts generateCaptchaText may draw
CaptchaTexts == {<<"A","B","1","2","C">>}

\* what a client may answer: nothing, the text in another case between
\* blanks, another text
Answers ==
    {<<>>,
     <<" ","A","b","1","2","C"," ">>,
     <<"x","9","z","q","7">>}

\* the tokens a client may present: none, those issued so far, and one that
\* was not issued
Tokens == 0..(IF capIssued < MaxCaptchas THEN capIssued + 1 ELSE MaxCaptchas)

\* captchaStore.delete has no effect
RemoveNothing(store, token) == store

\* captchaStore.delete(token)
Remove(store, token) == [k \in DOMAIN store \ {token} |-> store[k]]

\* cleanupExpiredCaptchas at Date.now() = now
cleanupExpiredCaptchas(store, now) ==
    [k \in {t \in DOMAIN store : ~(store[t].expires < now)} |-> store[k]]

\* createCaptcha: the store after the set and the cleanup
createCaptcha(store, token, captchaText, now) ==
    cleanupExpiredCaptchas(
        Put(store, token, [text |-> ToLowerCase(captchaText),
                           expires |-> now + Expiry]),
        now)

\* no captcha is ever past its expiry
ExpiredNever(stored, now) == FALSE

\* Date.now() > stored.expires
Expired(stored, now) == now > stored.expires

\* verifyCaptcha at Date.now() = now: the store it leaves, its verdict, and
\* the error index.js reports with it
verifyCaptcha(store, captchaToken, captchaUserInput, now) ==
    IF captchaUserInput = <<>> \/ captchaToken = NoToken
    THEN [store |-> store, valid |-> FALSE, error |-> "Missing captcha data"]
    ELSE IF captchaToken \notin DOMAIN store
    THEN [store |-> store, valid |-> FALSE, error |-> "Invalid or expired captcha"]
    ELSE IF Expired(store[captchaToken], now)
    THEN [store |-> Remove(store, captchaToken), valid |-> FALSE,
          error |-> "Captcha expired"]
    ELSE IF store[captchaToken].text = Trim(ToLowerCase(captchaUserInput))
    THEN [store |-> Remove(store, captchaToken), valid |-> TRUE, error |-> ""]
    ELSE [store |-> Remove(store, captchaToken), valid |-> FALSE,
          error |-> "Incorrect captcha"]

\* the handler goes on whatever the verification said
CaptchaNeverRejected(captchaResult) == FALSE

\* !captchaResult.valid, !captchaValid
CaptchaRejected(captchaResult) == ~captchaResult.valid

\* a response of a route: its status and its body's error or success
Responds(status, success, error) ==
    [status |-> status, success |-> success, error |-> error]

\* the handler threw: the request gets no response from it
NoResponse == Responds(0, FALSE, "Invalid DMARC record: missing or incorrect version")

\* what a handler did: the store it leaves, what it called in order, the
\* verdict of the verification if any, and its response
Handled(store, steps, valid, response) ==
    [store |-> store, steps |-> steps, valid |-> valid, response |-> response]

\* POST /analyze-dmarc-with-captcha of index.js, once rateLimitMiddleware
\* called next
postAnalyzeDmarcWithCaptcha(store, record, captchaText, captchaProbe, now) ==
    IF record = <<>>
    THEN Handled(store, <<>>, FALSE,
                 Responds(400, FALSE, "Missing DMARC record in request body"))
    ELSE IF captchaText = <<>> \/ captchaProbe = NoToken
    THEN Handled(store, <<>>, FALSE,
                 Responds(400, FALSE, "Captcha verification required"))
    ELSE LET captchaResult == verifyCaptcha(store, captchaProbe, captchaText, now)
         IN  IF CaptchaRejected(captchaResult)
             THEN Handled(captchaResult.store, <<"verifyCaptcha">>,
                          captchaResult.valid,
                          Responds(400, FALSE, captchaResult.error))
             ELSE IF ~Includes(record, S_vDMARC1)
             THEN Handled(captchaResult.store, <<"verifyCaptcha">>,
                          captchaResult.valid,
                          Responds(400, FALSE,
                                   "Invalid DMARC record: must contain v=DMARC1"))
             ELSE Handled(captchaResult.store, <<"verifyCaptcha", "analyzeDMARC">>,
                          captchaResult.valid,
                          IF parseDMARC(record, LibThrows).ok
                          THEN Responds(200, TRUE, "")
                          ELSE NoResponse)

S_http == <<"h","t","t","p",":","/","/">>
S_https == <<"h","t","t","p","s",":","/","/">>
S_www == <<"w","w","w",".">>

\* s.replace(/^prefix/, '')
StripPrefix(s, prefix) ==
    IF StartsWith(s, prefix) THEN SubSeq(s, Len(prefix) + 1, Len(s)) ELSE s

\* domain.trim().toLowerCase().replace(/^https?:\/\//, '')
\*       .replace(/^www\./, '').split('/')[0]
CleanDomain(domain) ==
    Split(StripPrefix(StripPrefix(StripPrefix(ToLowerCase(Trim(domain)), S_https),
                                  S_http),
                      S_www),
          "/")[1]

\* POST /analyze-dmarc of the router, once rateLimitMiddleware called next;
\* analysis is what analyzeDMARC(cleanDomain) settles with
postAnalyzeDmarc(store, domain, captchaToken, captchaUserInput, now, analysis) ==
    IF domain = <<>>
    THEN Handled(store, <<>>, FALSE, Responds(400, FALSE, "Domain is required"))
    ELSE LET captchaResult ==
                 verifyCaptcha(store, captchaToken, captchaUserInput, now)
         IN  IF CaptchaRejected(captchaResult)
             THEN Handled(captchaResult.store, <<"verifyCaptcha">>,
                          captchaResult.valid,
                          Responds(400, FALSE, "Invalid captcha. Please try again."))
             ELSE IF CleanDomain(domain) = <<>>
             THEN Handled(captchaResult.store, <<"verifyCaptcha">>,
                          captchaResult.valid,
                          Responds(400, FALSE, "Please enter a valid domain name"))
             ELSE Handled(captchaResult.store, <<"verifyCaptcha", "analyzeDMARC">>,
                          captchaResult.valid,
                          Responds(200, analysis.value.success,
                                   IF analysis.value.success THEN ""
                                   ELSE analysis.value.error))

\* the records and domains the routes are sent
RouteRecords == {<<>>, ServedNone, ServedSpf, ServedInvalid}
\* the domains the router is sent, each with what analyzeDMARC settles with
\* for it: a domain with a DMARC record, one without, and two that are
\* empty before or after cleaning
RouteDomains ==
    {[domain |-> <<" ","E","x","a","m","p","l","e",".","C","O","M","/","x">>,
      analysis |-> analyzeDMARC(Returns(<<OneChunk(ServedNone)>>), LibThrows,
                                Returns(NoVerifierResult))],
     [domain |-> <<"w","w","w",".","e","x","a","m","p","l","e",".","o","r","g">>,
      analysis |-> analyzeDMARC(Returns(<<OneChunk(ServedSpf)>>), LibThrows,
                                Returns(NoVerifierResult))],
     [domain |-> <<>>, analysis |-> Fulfilled(Failure(""))],
     [domain |-> S_https \o <<"/">>, analysis |-> Fulfilled(Failure(""))]}

\* what is known of a token: how often it verified true, whether an existing
\* entry of it was verified with a non-empty answer, whether it verified true
\* after that, and how many analyses were run for it
Unused == [trues |-> 0, used |-> FALSE, trueAfterUse |-> FALSE, analyses |-> 0]

\* the use of the tokens after one verification, and the analysis it allowed
Noted(use, store, token, answer, valid, analysed) ==
    IF token \notin DOMAIN use THEN use
    ELSE [use EXCEPT ![token] =
            [trues |-> @.trues + (IF valid THEN 1 ELSE 0),
             used |-> @.used \/ (answer # <<>> /\ token \in DOMAIN store),
             trueAfterUse |-> @.trueAfterUse \/ (@.used /\ valid),
             analyses |-> @.analyses + (IF analysed THEN 1 ELSE 0)]]

\* the last call made at the present tick, if any: which, with what token
\* and answer, the entries the store held under the token before and after
\* it, and what it did
LastCall(op, token, answer, before, handled) ==
    [op |-> op, token |-> token, answer |-> answer,
     before |-> IF token \in DOMAIN before THEN <<before[token]>> ELSE <<>>,
     after |-> IF token \in DOMAIN handled.store
               THEN <<handled.store[token]>> ELSE <<>>,
     steps |-> handled.steps, valid |-> handled.valid,
     status |-> handled.response.status]

NoCall ==
    LastCall("none", NoToken, <<>>, <<>>,
             Handled(<<>>, <<>>, FALSE, Responds(0, FALSE, "")))

CaptchaIdle ==
    /\ capPc = "idle" /\ capNow = 0 /\ captchaStore = <<>> /\ capIssued = 0
    /\ capUse = [token \in 1..MaxCaptchas |-> Unused]
    /\ capLast = NoCall

InitCaptchaVars ==
    /\ capPc \in {"index.js", "router"}
    /\ capNow = 0 /\ captchaStore = <<>> /\ capIssued = 0
    /\ capUse = [token \in 1..MaxCaptchas |-> Unused]
    /\ capLast = NoCall

\* GET /v1/captcha of index.js, GET /captcha of the router: a captcha is
\* issued under a fresh token
CreateCaptcha ==
    /\ capPc # "idle"
    /\ capIssued < MaxCaptchas
    /\ \E captchaText \in CaptchaTexts :
          \E created \in {createCaptcha(captchaStore, capIssued + 1, captchaText,
                                        capNow)} :
              /\ captchaStore' = created
              /\ capIssued' = capIssued + 1
              /\ capLast' = LastCall("createCaptcha", capIssued + 1, captchaText,
                                     captchaStore,
                                     Handled(created, <<>>, FALSE,
                                             Responds(200, TRUE, "")))
    /\ UNCHANGED <<capPc, capNow, capUse, dmarcVars, spfVars, dkimVars, mxVars,
                   serviceVars, compVars, rateVars>>

\* verifyCaptcha called on the store of index.js by any caller, with any
\* token and any answer
VerifyCaptcha ==
    /\ capPc = "index.js"
    /\ \E token \in Tokens, answer \in Answers :
          \E r \in {verifyCaptcha(captchaStore, token, answer, capNow)} :
              /\ captchaStore' = r.store
              /\ capUse' = Noted(capUse, captchaStore, token, answer, r.valid, FALSE)
              /\ capLast' = LastCall("verifyCaptcha", token, answer, captchaStore,
                                     Handled(r.store, <<"verifyCaptcha">>, r.valid,
                                             Responds(0, r.valid, r.error)))
    /\ UNCHANGED <<capPc, capNow, capIssued, dmarcVars, spfVars, dkimVars, mxVars,
                   serviceVars, compVars, rateVars>>

\* a request to POST /analyze-dmarc-with-captcha
PostAnalyzeDmarcWithCaptcha ==
    /\ capPc = "index.js"
    /\ \E record \in RouteRecords, captchaText \in Answers, captchaProbe \in Tokens :
          \E h \in {postAnalyzeDmarcWithCaptcha(captchaStore, record, captchaText,
                                                captchaProbe, capNow)} :
              /\ captchaStore' = h.store
              /\ capUse' =
                    IF h.steps = <<>> THEN capUse
                    ELSE Noted(capUse, captchaStore, captchaProbe, captchaText,
                               h.valid, Len(h.steps) = 2)
              /\ capLast' = LastCall("POST /analyze-dmarc-with-captcha",
                                     captchaProbe, captchaText, captchaStore, h)
    /\ UNCHANGED <<capPc, capNow, capIssued, dmarcVars, spfVars, dkimVars, mxVars,
                   serviceVars, compVars, rateVars>>

\* a request to the router's POST /analyze-dmarc
PostAnalyzeDmarc ==
    /\ capPc = "router"
    /\ \E request \in RouteDomains, captchaToken \in Tokens,
          captchaUserInput \in Answers :
          \E h \in {postAnalyzeDmarc(captchaStore, request.domain, captchaToken,
                                     captchaUserInput, capNow, request.analysis)} :
              /\ captchaStore' = h.store
              /\ capUse' =
                    IF h.steps = <<>> THEN capUse
                    ELSE Noted(capUse, captchaStore, captchaToken, captchaUserInput,
                               h.valid, Len(h.steps) = 2)
              /\ capLast' = LastCall("POST /analyze-dmarc", captchaToken,
                                     captchaUserInput, captchaStore, h)
    /\ UNCHANGED <<capPc, capNow, capIssued, dmarcVars, spfVars, dkimVars, mxVars,
                   serviceVars, compVars, rateVars>>

\* 5 minutes pass
TickCaptchaClock ==
    /\ capPc # "idle"
    /\ capNow < MaxCaptchaTick
    /\ capNow' = capNow + 1
    /\ capLast' = NoCall
    /\ UNCHANGED <<capPc, captchaStore, capIssued, capUse, dmarcVars, spfVars,
                   dkimVars, mxVars, serviceVars, compVars, rateVars>>

(***************************************************************************)
(* Specifications.  A behaviour is one record analysis, or the calls the   *)
(* service answers, or one call of analyzeEmailSecurity, or the requests   *)
(* the rate limiter sees, or the calls on the captcha store of one         *)
(* application.                                                            *)
(***************************************************************************)
WebIdle == RateIdle /\ CaptchaIdle

OthersIdle == ServiceIdle /\ CompositeIdle /\ WebIdle

InitDMARC == InitDMARCVars /\ SpfIdle /\ DkimIdle /\ MxIdle /\ OthersIdle
InitSPF == DmarcIdle /\ InitSPFVars /\ DkimIdle /\ MxIdle /\ OthersIdle
InitDKIM == DmarcIdle /\ SpfIdle /\ InitDKIMVars /\ MxIdle /\ OthersIdle
InitMX == DmarcIdle /\ SpfIdle /\ DkimIdle /\ InitMXVars /\ OthersIdle
InitService ==
    DmarcIdle /\ SpfIdle /\ DkimIdle /\ MxIdle /\ InitServiceVars /\ CompositeIdle
    /\ WebIdle
InitComposite ==
    DmarcIdle /\ SpfIdle /\ DkimIdle /\ MxIdle /\ ServiceIdle /\ InitCompositeVars
    /\ WebIdle
InitRateLimit ==
    DmarcIdle /\ SpfIdle /\ DkimIdle /\ MxIdle /\ ServiceIdle /\ CompositeIdle
    /\ InitRateVars /\ CaptchaIdle
InitCaptcha ==
    DmarcIdle /\ SpfIdle /\ DkimIdle /\ MxIdle /\ ServiceIdle /\ CompositeIdle
    /\ RateIdle /\ InitCaptchaVars

Init ==
    \/ InitDMARC \/ InitSPF \/ InitDKIM \/ InitMX \/ InitService \/ InitComposite
    \/ InitRateLimit \/ InitCaptcha

NextService == CallAnalyzeDMARC \/ CallAnalyzeSPF \/ CallAnalyzeDKIM \/ CallAnalyzeMX

NextComposite == StartAnalyses \/ AnalysisSettles \/ AwaitAllSettled

NextRateLimit == HandleRequest \/ TickClock

NextCaptcha ==
    \/ CreateCaptcha \/ VerifyCaptcha \/ TickCaptchaClock
    \/ PostAnalyzeDmarcWithCaptcha \/ PostAnalyzeDmarc

Next ==
    \/ AnalyzeDMARCRecord \/ AnalyzeSPFRecord \/ AnalyzeDKIMRecord \/ AnalyzeMXAnswer
    \/ NextService
    \/ NextComposite
    \/ NextRateLimit
    \/ NextCaptcha

Spec == Init /\ [][Next]_vars
\* the four record analyses alone
InitAnalyses == InitDMARC \/ InitSPF \/ InitDKIM \/ InitMX
NextAnalyses ==
    AnalyzeDMARCRecord \/ AnalyzeSPFRecord \/ AnalyzeDKIMRecord \/ AnalyzeMXAnswer
SpecAnalyses == InitAnalyses /\ [][NextAnalyses]_vars
SpecDMARC == InitDMARC /\ [][AnalyzeDMARCRecord]_vars
SpecSPF == InitSPF /\ [][AnalyzeSPFRecord]_vars
SpecDKIM == InitDKIM /\ [][AnalyzeDKIMRecord]_vars
SpecMX == InitMX /\ [][AnalyzeMXAnswer]_vars
SpecService == InitService /\ [][NextService]_vars
SpecComposite == InitComposite /\ [][NextComposite]_vars
SpecRateLimit == InitRateLimit /\ [][NextRateLimit]_vars
SpecCaptcha == InitCaptcha /\ [][NextCaptcha]_vars
(***************************************************************************)
(* Properties.  A score.value is a number of tenths: 35 is 3.5.            *)
(***************************************************************************)
ScoreInBounds(score) == 0 <= score.value /\ score.value <= 10 * score.outOf

\* C1: for every analyzer (DMARC, SPF, DKIM, MX) and every input, extreme
\* ones included (pct negative, pct above 100, unknown policy, no tags at
\* all), the returned score.value satisfies 0 <= score.value <= score.outOf.
C1_ScoreWithinBounds ==
    /\ dmarcPc = "done" => ScoreInBounds(dmarcAnalysis.score)
    /\ spfPc = "done" => ScoreInBounds(spfAnalysis.score)
    /\ dkimPc = "done" => ScoreInBounds(dkimAnalysis.score)
    /\ mxPc = "done" => ScoreInBounds(mxResult.score)

\* a DMARC policy with a negative pct whose points sum below 0 was scored 0
C1_Witness ==
    /\ dmarcPc = "done"
    /\ Has(dmarcAnalysis.parsed, S_pct)
    /\ dmarcAnalysis.parsed[S_pct] < 0
    /\ DmarcBase(dmarcAnalysis.parsed) < 0
    /\ dmarcAnalysis.score.value = 0
\* the value of a tag of a parsed policy, <<>> when the tag is absent
TagOf(parsed, tag) == IF tag \in DOMAIN parsed THEN parsed[tag] ELSE <<>>

\* the scoring table of DMARC without its coverage row, in tenths of a point
C2_TableTenths(parsed) ==
    (CASE TagOf(parsed, S_p) = S_reject -> 50
       [] TagOf(parsed, S_p) = S_quarantine -> 30
       [] TagOf(parsed, S_p) = S_none -> 0
       [] OTHER -> 0 - 20)
    + (IF TagOf(parsed, S_rua) # <<>> THEN 10 ELSE 0)
    + (IF TagOf(parsed, S_ruf) # <<>> THEN 10 ELSE 0)
    + (IF TagOf(parsed, S_sp) # <<>> THEN 10 ELSE 0)
    + (IF TagOf(parsed, S_sp) = S_reject THEN 5 ELSE 0)
    + (IF TagOf(parsed, S_adkim) = S_s THEN 5 ELSE 0)
    + (IF TagOf(parsed, S_aspf) = S_s THEN 5 ELSE 0)

\* tenths clamped to [0, 10.0]
C2_ClampTenths(t) == IF t < 0 THEN 0 ELSE IF t > 100 THEN 100 ELSE t

\* v=DMARC1; p=reject; rua=mailto:a@b.com; ruf=mailto:c@d.com; sp=reject;
\* pct=100; adkim=s; aspf=s
C2_Example ==
    DmarcRecordOf(S_reject, S_mailtoA, S_mailtoC, S_reject, <<"1","0","0">>,
                  S_s, S_s, <<>>)

\* C2: for every parsed DMARC policy whose pct is absent or 100, the score
\* value is the sum of the table contributions (full coverage +0.5 included)
\* clamped to [0, 10]; p=reject with rua, ruf, sp=reject, pct=100, adkim=s,
\* aspf=s yields 10.0 and Excellent.
C2_TableScore ==
    dmarcPc = "done" =>
        /\ (S_pct \notin DOMAIN dmarcAnalysis.parsed \/ dmarcAnalysis.parsed[S_pct] = 100)
            => dmarcAnalysis.score.value
                   = C2_ClampTenths(C2_TableTenths(dmarcAnalysis.parsed) + 5)
        /\ (dmarcRecord = C2_Example /\ libParse = LibThrows)
            => dmarcAnalysis.score.value = 100 /\ dmarcAnalysis.score.level = "Excellent"

\* the example record was analysed by the hand-written parser and scored 10.0
C2_Witness ==
    /\ dmarcPc = "done"
    /\ dmarcRecord = C2_Example
    /\ libParse = LibThrows
    /\ dmarcAnalysis.parsed[S_pct] = 100
    /\ dmarcAnalysis.score.value = 100

InSeq(x, seq) == \E i \in 1..Len(seq) : seq[i] = x

NoProtectionWarning ==
    "Policy \"p=none\" offers no protection. Consider \"quarantine\" or \"reject\"."

\* a policy with p=none and no rua, ruf or sp tag has been analysed
C3_Case ==
    /\ dmarcPc = "done"
    /\ TagOf(dmarcAnalysis.parsed, S_p) = S_none
    /\ {S_rua, S_ruf, S_sp} \cap DOMAIN dmarcAnalysis.parsed = {}

\* C3 as claimed: with p=none and no rua, ruf or sp, whatever the other
\* tags, the warnings include the no-protection message and the score value
\* is at most 1.
C3_Original ==
    C3_Case => /\ InSeq(NoProtectionWarning, dmarcAnalysis.warnings)
               /\ dmarcAnalysis.score.value <= 10

\* C3 amended: with p=none and no rua, ruf or sp, the warnings include the
\* no-protection message and the score value is at most 1.5; it exceeds 1
\* only at full coverage with both adkim=s and aspf=s.
C3_NoProtection ==
    C3_Case => /\ InSeq(NoProtectionWarning, dmarcAnalysis.warnings)
               /\ dmarcAnalysis.score.value <= 15
               /\ dmarcAnalysis.score.value > 10
                    => /\ TagOf(dmarcAnalysis.parsed, S_adkim) = S_s
                       /\ TagOf(dmarcAnalysis.parsed, S_aspf) = S_s
                       /\ EffectivePct(dmarcAnalysis.parsed) >= 100

\* p=none with strict alignment on both sides and full coverage scored 1.5
C3_Witness ==
    /\ C3_Case
    /\ TagOf(dmarcAnalysis.parsed, S_adkim) = S_s
    /\ TagOf(dmarcAnalysis.parsed, S_aspf) = S_s
    /\ dmarcAnalysis.score.value = 15
    /\ InSeq(NoProtectionWarning, dmarcAnalysis.warnings)
\* the level the thresholds give a reported value, in tenths
C4_LevelOfTenths(value) ==
    IF value >= 80 THEN "Excellent"
    ELSE IF value >= 60 THEN "Good"
    ELSE IF value >= 40 THEN "Fair"
    ELSE "Poor"

\* C4: in every DMARC analysis result the level is the step function of the
\* reported (one-decimal) score.value: Excellent iff value >= 8, Good iff
\* 6 <= value < 8, Fair iff 4 <= value < 6, Poor otherwise.
C4_LevelFollowsValue ==
    dmarcPc = "done" =>
        dmarcAnalysis.score.level = C4_LevelOfTenths(dmarcAnalysis.score.value)

\* the segments of a record as customDMARCParse sees them
SegmentsOf(record) == Split(StripWhitespace(record), ";")

\* among the segments, the only pct segment is pct=n
HasPctTag(segments, n) ==
    /\ InSeq(S_pct \o <<"=">> \o ToDecimal(n), segments)
    /\ \A i \in 1..Len(segments) :
          StartsWith(segments[i], S_pct \o <<"=">>)
              => segments[i] = S_pct \o <<"=">> \o ToDecimal(n)

\* the reported value when (100 - n) / 50 is subtracted from the table sum
\* and no coverage bonus is added
C5_ExpectedTenths(parsed, n) ==
    LET fiftieths == 5 * C2_TableTenths(parsed) - (100 - n)
        clamped == IF fiftieths < 0 THEN 0 ELSE IF fiftieths > 500 THEN 500 ELSE fiftieths
    IN  (2 * clamped + 5) \div 10

\* C5: for every DMARC record whose pct tag is an integer in 0..99 (pct=0
\* included), scoring subtracts (100 - pct) / 50, awards no full-coverage
\* bonus, emits the coverage warning, and the low-coverage warning too when
\* pct < 50.
C5_PartialCoverage ==
    (dmarcPc = "done" /\ UsesCustomParser(libParse)) =>
        \A segments \in {SegmentsOf(dmarcRecord)} : \A n \in 0..99 :
            HasPctTag(segments, n)
            => /\ dmarcAnalysis.score.value = C5_ExpectedTenths(dmarcAnalysis.parsed, n)
               /\ ~InSeq("Full policy coverage (+0.5 points)", dmarcAnalysis.score.details)
               /\ InSeq("Only ${pct}% of mail is subject to DMARC policy.",
                        dmarcAnalysis.warnings)
               /\ n < 50 => InSeq("Very low policy coverage - consider increasing pct value",
                                  dmarcAnalysis.warnings)

\* C6: for every DMARC record the hand-written parser accepts, the parsed pct
\* is an integer in [0, 100] and the parsed ri is a positive integer.
C6_ParsedRanges ==
    (dmarcPc = "done" /\ UsesCustomParser(libParse)) =>
        /\ S_pct \in DOMAIN dmarcAnalysis.parsed
              => dmarcAnalysis.parsed[S_pct] \in 0..100
        /\ S_ri \in DOMAIN dmarcAnalysis.parsed => dmarcAnalysis.parsed[S_ri] > 0
\* the level thresholds of SPF and DKIM on a value in tenths
C7_LevelOfTenths(value) ==
    IF value >= 40 THEN "Excellent"
    ELSE IF value >= 30 THEN "Good"
    ELSE IF value >= 20 THEN "Fair"
    ELSE "Poor"

\* the SPF score of a list of mechanisms, in tenths
C7_Tenths(mechanisms) ==
    LET last == IF Len(mechanisms) = 0 THEN <<>> ELSE mechanisms[Len(mechanisms)]
        sum == 10
               + (IF \E i \in 1..Len(mechanisms) : StartsWith(mechanisms[i], S_include)
                  THEN 10 ELSE 0)
               + (IF \E i \in 1..Len(mechanisms) :
                        StartsWith(mechanisms[i], S_a) \/ StartsWith(mechanisms[i], S_mx)
                  THEN 10 ELSE 0)
               + (CASE last = S_softAll -> 15
                    [] last = S_hardAll -> 20
                    [] last = S_neutralAll -> 5
                    [] OTHER -> 0)
    IN  IF sum > 50 THEN 50 ELSE sum

\* v=spf1 include:_spf.google.com ~all
C7_Example == S_vspf1 \o <<" ">> \o S_includeGoogle \o <<" ">> \o S_softAll

\* C7: for every SPF record starting with v=spf1 the score is clamp[0,5] of
\* +1 format, +1 some include:, +1 some a or mx, plus the bonus of the last
\* token only (~all 1.5, -all 2, ?all 0.5 with a recommendation, anything
\* else 0 with the warning and a recommendation); the level is Excellent at
\* >= 4, Good at >= 3, Fair at >= 2, else Poor; the example scores 3.5, Good.
C7_SpfScore ==
    (spfPc = "done" /\ StartsWith(spfRecord, S_vspf1)) =>
        LET mechanisms == spfAnalysis.parsed
            last == IF Len(mechanisms) = 0 THEN <<>> ELSE mechanisms[Len(mechanisms)]
            other == last \notin {S_softAll, S_hardAll, S_neutralAll}
        IN  /\ spfAnalysis.score.value = C7_Tenths(mechanisms)
            /\ spfAnalysis.score.level = C7_LevelOfTenths(spfAnalysis.score.value)
            /\ last = S_neutralAll =>
                  spfAnalysis.recommendations
                      = <<"Consider using ~all or -all for better security">>
            /\ other <=> InSeq("SPF record should end with an \"all\" mechanism",
                               spfAnalysis.warnings)
            /\ other => spfAnalysis.recommendations
                            = <<"Add ~all or -all at the end of your SPF record">>
            /\ spfRecord = C7_Example =>
                  /\ mechanisms = <<S_includeGoogle, S_softAll>>
                  /\ spfAnalysis.score.value = 35
                  /\ spfAnalysis.score.level = "Good"

\* the example record was scored 3.5, Good
C7_Witness ==
    /\ spfPc = "done"
    /\ spfRecord = C7_Example
    /\ spfAnalysis.score.value = 35
    /\ spfAnalysis.score.level = "Good"

\* the DKIM score of a record holding a marker, in tenths
C8_Tenths(record) ==
    LET sum == 10
               + (IF Includes(record, S_pEq) /\ ~Includes(record, S_pEmpty)
                  THEN 20 ELSE 0)
               + (IF Includes(record, S_krsa) THEN 10 ELSE 0)
               + (IF Includes(record, S_hsha256) THEN 10
                  ELSE IF Includes(record, S_hsha1) THEN 5 ELSE 0)
    IN  IF sum > 50 THEN 50 ELSE sum

\* C8: a DKIM record with none of v=DKIM1, k=rsa, p= scores 0, Poor; else
\* the score is clamp[0,5] of +1, +2 iff it holds p= and not p=; (else a
\* no-public-key warning), +1 iff k=rsa, +1 iff h=sha256, else +0.5 with an
\* upgrade recommendation iff h=sha1; the levels are those of SPF.
C8_DkimScore ==
    dkimPc = "done" =>
        LET marked == \/ Includes(dkimKey, S_vDKIM1)
                      \/ Includes(dkimKey, S_krsa)
                      \/ Includes(dkimKey, S_pEq)
            keyed == Includes(dkimKey, S_pEq) /\ ~Includes(dkimKey, S_pEmpty)
            sha1Only == Includes(dkimKey, S_hsha1) /\ ~Includes(dkimKey, S_hsha256)
        IN  /\ ~marked => /\ dkimAnalysis.score.value = 0
                          /\ dkimAnalysis.score.level = "Poor"
            /\ marked =>
                  /\ dkimAnalysis.score.value = C8_Tenths(dkimKey)
                  /\ dkimAnalysis.score.level
                        = C7_LevelOfTenths(dkimAnalysis.score.value)
                  /\ ~keyed <=> InSeq("No public key found in DKIM record",
                                      dkimAnalysis.warnings)
                  /\ sha1Only <=> InSeq("Consider upgrading to SHA-256 for better security",
                                        dkimAnalysis.recommendations)

\* a record with k=rsa, h=sha1 and the empty-key form p=; got no key points:
\* 2.5, with the no-public-key warning and the upgrade recommendation
C8_Witness ==
    /\ dkimPc = "done"
    /\ Includes(dkimKey, S_pEmpty)
    /\ Includes(dkimKey, S_krsa)
    /\ Includes(dkimKey, S_hsha1)
    /\ dkimAnalysis.score.value = 25
    /\ dkimAnalysis.score.level = "Fair"
    /\ InSeq("No public key found in DKIM record", dkimAnalysis.warnings)
    /\ InSeq("Consider upgrading to SHA-256 for better security",
             dkimAnalysis.recommendations)

\* the priorities of a list of MX records
PrioritiesOf(records) == [i \in 1..Len(records) |-> records[i].priority]

\* two records share a priority
C9_Duplicate(records) ==
    \E i, j \in 1..Len(records) : i # j /\ records[i].priority = records[j].priority

\* C9: for every non-empty MX record set the score is +1 for existence, +1
\* iff there are at least 2 records, +1 iff the priorities are pairwise
\* distinct; the duplicate-priority warning is emitted iff two records share
\* a priority; priorities [10,10,20] give the warning and a score of 2.
C9_MxScore ==
    mxPc = "done" =>
        /\ mxResult.score.value
              = 10 + (IF Len(mxRecords) >= 2 THEN 10 ELSE 0)
                   + (IF C9_Duplicate(mxRecords) THEN 0 ELSE 10)
        /\ C9_Duplicate(mxRecords)
              <=> InSeq("Some MX records have the same priority", mxResult.warnings)
        /\ PrioritiesOf(mxResult.records) = <<10, 10, 20>>
              => /\ mxResult.score.value = 20
                 /\ InSeq("Some MX records have the same priority", mxResult.warnings)

\* priorities 10, 10, 20 were scored 2 with the duplicate warning
C9_Witness ==
    /\ mxPc = "done"
    /\ PrioritiesOf(mxResult.records) = <<10, 10, 20>>
    /\ mxResult.score.value = 20
    /\ mxResult.warnings = <<"Some MX records have the same priority">>

\* how many times r occurs in records
Occurrences(records, r) == Cardinality({i \in 1..Len(records) : records[i] = r})

\* C10: in every successful analyzeMX result the records are a permutation
\* of the resolver's answer in non-decreasing order of priority.
C10_RecordsSorted ==
    mxPc = "done" =>
        /\ Len(mxResult.records) = Len(mxRecords)
        /\ \A r \in MxRecord :
              Occurrences(mxResult.records, r) = Occurrences(mxRecords, r)
        /\ \A i \in 1..(Len(mxResult.records) - 1) :
              mxResult.records[i].priority <= mxResult.records[i + 1].priority

\* an answer that came out of order was returned in order
C10_Witness ==
    /\ mxPc = "done"
    /\ \E i \in 1..(Len(mxRecords) - 1) :
          mxRecords[i].priority > mxRecords[i + 1].priority
    /\ mxResult.records # mxRecords

(***************************************************************************)
(* Properties of analyzeEmailSecurity.  Values are in tenths, maxima in    *)
(* points.                                                                 *)
(***************************************************************************)
\* the analysis fulfilled with success: true
Succeeded(settlement) ==
    settlement.status = "fulfilled" /\ settlement.value.success

\* the score field of an analysis that succeeded, else 0
ScoreField(settlement, field) ==
    IF Succeeded(settlement) THEN settlement.value.score[field] ELSE 0

\* the sum of a score field over the analyses that succeeded
SumOfSucceeded(field) ==
    ScoreField(settled.dmarc, field) + ScoreField(settled.spf, field)
    + ScoreField(settled.dkim, field) + ScoreField(settled.mx, field)

SomeSucceeded == \E protocol \in Protocols : Succeeded(settled[protocol])

Abs(n) == IF n < 0 THEN 0 - n ELSE n

\* C11: whenever at least one of the four analyses succeeded, the returned
\* overallScore.value is (sum of score.value / sum of score.outOf) x 10 over
\* the succeeded protocols, to the nearest tenth (no tenth is nearer to the
\* quotient); a failed protocol adds to neither sum.
C11_OverallValue ==
    (compPc = "resolved" /\ SomeSucceeded) =>
        2 * Abs(composite.value.overallScore.value * SumOfSucceeded("outOf")
                - 10 * SumOfSucceeded("value"))
            <= SumOfSucceeded("outOf")

\* DMARC failed, SPF (3.5), DKIM (4) and MX (3) succeeded: 10.5 / 13 -> 8.1
C11_Witness ==
    /\ compPc = "resolved"
    /\ settled.dmarc = Fulfilled([success |-> FALSE, error |-> "DMARC record not found"])
    /\ ScoreField(settled.spf, "value") = 35
    /\ ScoreField(settled.dkim, "value") = 40
    /\ ScoreField(settled.mx, "value") = 30
    /\ SumOfSucceeded("outOf") = 13
    /\ composite.value.overallScore.value = 81

\* C12: in every composite result overallScore.outOf is the sum of score.outOf
\* of the analyses that succeeded.
C12_OutOfIsSum ==
    compPc = "resolved" =>
        composite.value.overallScore.outOf = SumOfSucceeded("outOf")

\* C13: when none of the four analyses succeeded, the result has
\* overallScore.value 0 and level Poor.
C13_NoneSucceeded ==
    (compPc = "resolved" /\ ~SomeSucceeded) =>
        /\ composite.value.overallScore.value = 0
        /\ composite.value.overallScore.level = "Poor"

\* four failures of four kinds: a record not found, a lookup that raised, a
\* rejection with an Error and a rejection with another value
C13_Witness ==
    /\ compPc = "resolved"
    /\ settled.dmarc = Fulfilled([success |-> FALSE, error |-> "DMARC record not found"])
    /\ settled.spf = Fulfilled([success |-> FALSE, error |-> S_enotfound])
    /\ settled.dkim = Rejected(ErrorOf("boom"))
    /\ settled.mx = Rejected(NonErrorValue)
    /\ composite.value.overallScore.value = 0

\* C14: in every composite result the level is the step function of the
\* reported overallScore.value: Excellent iff value >= 8, Good iff
\* 6 <= value < 8, Fair iff 4 <= value < 6, Poor otherwise.
C14_LevelFollowsValue ==
    compPc = "resolved" =>
        composite.value.overallScore.level
            = C4_LevelOfTenths(composite.value.overallScore.value)

\* C15: all four analyses are started before any is awaited; a result is
\* produced only once all four have settled; in the result a fulfilled
\* analysis appears as it fulfilled, and a rejected one as success: false
\* with the message of its reason.
C15_FanOutFanIn ==
    /\ (\E protocol \in Protocols : settled[protocol] # NotStarted)
           => \A protocol \in Protocols : settled[protocol] # NotStarted
    /\ compPc \in {"resolved", "rejected"}
           => \A protocol \in Protocols :
                  settled[protocol].status \in {"fulfilled", "rejected"}
    /\ compPc = "resolved"
           => \A protocol \in Protocols :
                  /\ settled[protocol].status = "fulfilled"
                         => composite.value[protocol] = settled[protocol].value
                  /\ (settled[protocol].status = "rejected"
                      /\ settled[protocol].reason.type = "Error")
                         => composite.value[protocol]
                                = [success |-> FALSE,
                                   error |-> settled[protocol].reason.message]

\* the DKIM analysis rejected with an Error, the three others succeeded and
\* are returned as they were
C15_Witness ==
    /\ compPc = "resolved"
    /\ settled.dkim = Rejected(ErrorOf("boom"))
    /\ composite.value.dkim = [success |-> FALSE, error |-> "boom"]
    /\ \A protocol \in Protocols \ {"dkim"} :
          /\ Succeeded(settled[protocol])
          /\ composite.value[protocol] = settled[protocol].value

\* C16: whatever the four analyses settle with, rejections with any reason
\* included, analyzeEmailSecurity resolves and does not reject.
C16_NeverRejects == compPc # "rejected"

\* C18: every analysis result with success = false carries no score, no
\* parsed record and no explanations, and every result with success = true
\* carries a score, in what the analyzers return and in what the composite
\* returns for them.
C18_Shape(result) ==
    /\ ~result.success => DOMAIN result \cap {"score", "parsed", "explanations"} = {}
    /\ result.success => "score" \in DOMAIN result

C18_FailureHasNoScore ==
    /\ \A protocol \in Protocols :
          settled[protocol].status = "fulfilled" => C18_Shape(settled[protocol].value)
    /\ compPc = "resolved"
          => /\ \A protocol \in Protocols : C18_Shape(composite.value[protocol])
             /\ \A protocol \in Protocols :
                   (~composite.value[protocol].success)
                       => ScoreField(settled[protocol], "outOf") = 0

\* SPF not found (with its recommendations), the MX lookup raised, DMARC and
\* DKIM succeeded: the result is out of the 15 points of the two successes
C18_Witness ==
    /\ compPc = "resolved"
    /\ settled.spf = Fulfilled(NotFound("SPF record not found", SpfNotFoundRecommendations))
    /\ settled.mx = Fulfilled([success |-> FALSE, error |-> S_enotfound])
    /\ Succeeded(settled.dmarc) /\ Succeeded(settled.dkim)
    /\ SumOfSucceeded("outOf") = 15

(***************************************************************************)
(* Properties of the calls the service answers.                            *)
(***************************************************************************)
Calls == 1..Len(served)

\* the record the DMARC call finds is one parseDMARC rejects
C17_ParseFails(call) ==
    \/ call.lookup = Returns(<<OneChunk(ServedInvalid)>>)
    \/ call.lookup.kind = "returns" /\ call.lookup.value # <<>> /\ call.lib.kind = "object"

\* C17: every analyzer call fulfils with a result envelope, whether the DNS
\* resolver answers, answers nothing or raises; analyzeDMARC answers a lookup
\* that raised and a record that does not parse with success: false and the
\* message of the failure.
C17_AnalyzersNeverReject ==
    \A i \in Calls :
        LET call == served[i].call
            settlement == served[i].settlement
        IN  /\ settlement.status = "fulfilled"
            /\ settlement.value.success \in BOOLEAN
            /\ (call.lookup.kind = "raises" \/ call.lookup = Returns(<<>>))
                   => ~settlement.value.success
            /\ (call.protocol = "dmarc" /\ call.lookup.kind = "raises")
                   => settlement.value.error = call.lookup.thrown.message
            /\ (call.protocol = "dmarc" /\ C17_ParseFails(call))
                   => /\ ~settlement.value.success
                      /\ settlement.value.error
                             = "Invalid DMARC record: missing or incorrect version"

\* a DMARC lookup that raised, then a DMARC record that does not parse
C17_Witness ==
    /\ Len(served) >= 2
    /\ served[1].call.protocol = "dmarc"
    /\ served[1].call.lookup = Raises(ErrorOf(S_enotfound))
    /\ served[1].settlement.value.error = S_enotfound
    /\ served[2].call.protocol = "dmarc"
    /\ served[2].call.lookup = Returns(<<OneChunk(ServedInvalid)>>)
    /\ ~served[2].settlement.value.success

\* the verifier contributed nothing: it returned nothing or raised
NoVerifierContribution(call) ==
    call.verifier.kind = "raises" \/ call.verifier.value = NoVerifierResult

IsPrefix(short, long) ==
    Len(short) <= Len(long) /\ SubSeq(long, 1, Len(short)) = short

\* C19: two DMARC, SPF or DKIM calls that differ only in what the verifier
\* does (returns a result, returns nothing, raises) succeed or fail alike,
\* and when they succeed they have the same score value, level, warnings and
\* recommendations; the details of the call whose verifier contributed
\* nothing are the first lines of the other's.
C19_VerifierIsAdvisory ==
    \A i, j \in Calls :
        LET a == served[i]
            b == served[j]
        IN  (/\ a.call.protocol = b.call.protocol
             /\ a.call.lookup = b.call.lookup
             /\ a.call.lib = b.call.lib)
            => /\ a.settlement.status = "fulfilled"
               /\ b.settlement.status = "fulfilled"
               /\ a.settlement.value.success = b.settlement.value.success
               /\ a.settlement.value.success
                    => /\ a.settlement.value.score.value = b.settlement.value.score.value
                       /\ a.settlement.value.score.level = b.settlement.value.score.level
                       /\ a.settlement.value.score.outOf = b.settlement.value.score.outOf
                       /\ a.settlement.value.warnings = b.settlement.value.warnings
                       /\ a.settlement.value.recommendations
                              = b.settlement.value.recommendations
                       /\ NoVerifierContribution(a.call)
                              => IsPrefix(a.settlement.value.score.details,
                                          b.settlement.value.score.details)

\* the same DMARC record analysed while the verifier raised and while it
\* returned a result with info: both succeed, the second has two more lines
C19_Witness ==
    /\ Len(served) >= 2
    /\ served[1].call.protocol = "dmarc"
    /\ served[2].call.protocol = "dmarc"
    /\ served[1].call.lookup = served[2].call.lookup
    /\ served[1].call.verifier.kind = "raises"
    /\ served[2].call.verifier.kind = "returns"
    /\ served[1].settlement.value.success
    /\ served[2].settlement.value.success
    /\ Len(served[2].settlement.value.score.details)
           = Len(served[1].settlement.value.score.details) + 2

FirstEquals(segment) ==
    IF \E i \in 1..Len(segment) : segment[i] = "="
    THEN CHOOSE i \in 1..Len(segment) :
             segment[i] = "=" /\ \A j \in 1..(i - 1) : segment[j] # "="
    ELSE 0

\* the text before the first '=' and the whole text after it
KeyOf(segment) == SubSeq(segment, 1, FirstEquals(segment) - 1)
RestOf(segment) == SubSeq(segment, FirstEquals(segment) + 1, Len(segment))

\* the segment has a key and a value around its first '='
IsTag(segment) ==
    FirstEquals(segment) > 0 /\ KeyOf(segment) # <<>> /\ RestOf(segment) # <<>>

\* C21: every key of the policy the hand-written parser produces is
\* lowercase, for known and unknown tags alike, and every segment of the
\* record that has a key and a value is kept under its key.
C21_LowercaseKeys ==
    (dmarcPc = "done" /\ UsesCustomParser(libParse)) =>
        \A segments \in {SegmentsOf(dmarcRecord)} :
            /\ \A key \in DOMAIN dmarcAnalysis.parsed : ToLowerCase(key) = key
            /\ \A i \in 1..Len(segments) :
                  IsTag(segments[i])
                      => ToLowerCase(KeyOf(segments[i])) \in DOMAIN dmarcAnalysis.parsed

\* what the parser stores for a tag whose value is the given text
StoredValue(tag, text) ==
    IF tag = S_pct THEN ParseIntOr(text, 100)
    ELSE IF tag = S_ri THEN ParseIntOr(text, 86400)
    ELSE IF tag \in {S_rua, S_ruf} THEN AddressList(text)
    ELSE text

\* no later segment of the record has the same key
IsLastOfKey(segments, i) ==
    \A j \in (i + 1)..Len(segments) :
        ~(/\ IsTag(segments[j])
          /\ ToLowerCase(KeyOf(segments[j])) = ToLowerCase(KeyOf(segments[i])))

\* C22: the hand-written parser splits each segment once on its first '=':
\* the value stored for a tag is made from the whole remainder after the
\* first '=', so a value that itself contains '=' is kept in full.
C22_SplitOnFirstEquals ==
    (dmarcPc = "done" /\ UsesCustomParser(libParse)) =>
        \A segments \in {SegmentsOf(dmarcRecord)} :
            \A i \in 1..Len(segments) :
                (IsTag(segments[i]) /\ IsLastOfKey(segments, i))
                    => \E key \in DOMAIN dmarcAnalysis.parsed :
                          /\ ToLowerCase(key) = ToLowerCase(KeyOf(segments[i]))
                          /\ dmarcAnalysis.parsed[key]
                                 = StoredValue(ToLowerCase(key), RestOf(segments[i]))

\* the analyzeDMARC calls served, in order
DmarcServed == SelectSeq(served, LAMBDA entry : entry.call.protocol = "dmarc")

\* the TXT entries of an answer, each joined, that start with v=DMARC1
DmarcEntries(txtRecords) ==
    SelectSeq([i \in 1..Len(txtRecords) |-> Join(txtRecords[i], <<>>)],
              LAMBDA txt : StartsWith(txt, S_vDMARC1))

\* C23: analyzeDMARC queries _dmarc.<domain> first; when the resolver answers,
\* it analyses the first TXT entry, in answer order, whose joined segments
\* start with v=DMARC1; when no entry starts with it the result is
\* success: false with error 'DMARC record not found' and neither the
\* verifier nor the parser is invoked.
C23_FirstDmarcEntry ==
    /\ Len(dmarcInvoked) = Len(DmarcServed)
    /\ \A i \in 1..Len(DmarcServed) :
          LET entry == DmarcServed[i]
              result == entry.settlement.value
          IN  /\ dmarcInvoked[i][1] = "resolver.resolveTxt _dmarc.<domain>"
              /\ entry.call.lookup.kind = "returns" =>
                    IF DmarcEntries(entry.call.lookup.value) = <<>>
                    THEN /\ entry.settlement.status = "fulfilled"
                         /\ ~result.success
                         /\ result.error = "DMARC record not found"
                         /\ Len(dmarcInvoked[i]) = 1
                    ELSE /\ InSeq("mailauth.dmarc.verify", dmarcInvoked[i])
                         /\ InSeq("dmarcParse", dmarcInvoked[i])
                         /\ entry.settlement.status = "fulfilled"
                         /\ result.success
                               => result.rawRecord
                                      = DmarcEntries(entry.call.lookup.value)[1]
                         /\ ~result.success
                               => result.error # "DMARC record not found"

\* an answer without a DMARC entry was served as not found with the resolver
\* alone invoked, and an answer whose second entry, in two chunks, is the
\* first to start with v=DMARC1 was analysed on that entry
C23_Witness ==
    \E i, j \in 1..Len(DmarcServed) :
        /\ DmarcServed[i].call.lookup = Returns(<<OneChunk(ServedSpf)>>)
        /\ DmarcServed[i].settlement.value.error = "DMARC record not found"
        /\ Len(dmarcInvoked[i]) = 1
        /\ DmarcServed[j].call.lookup
               = Returns(<<OneChunk(ServedSpf), TwoChunks(ServedReject)>>)
        /\ DmarcServed[j].settlement.value.success
        /\ DmarcServed[j].settlement.value.rawRecord = ServedReject
        /\ Len(dmarcInvoked[j]) = 4

\* the library raised, returned nothing or an empty object, or returned an
\* object without a v tag
C24_FallsBack(lib) ==
    \/ lib.kind \in {"throws", "null"}
    \/ DOMAIN lib.value = {}
    \/ S_v \notin DOMAIN lib.value
    \/ lib.value[S_v] = <<>>

\* the policy of the path taken
C24_Parsed(record, lib) ==
    IF C24_FallsBack(lib) THEN customDMARCParse(record) ELSE lib.value

\* C24: parseDMARC uses the hand-written parser exactly when the library
\* raises, returns an empty result or returns a result without a v tag; after
\* either path the parse fails iff v is absent or does not contain DMARC1,
\* and the analysis then reports success: false with the parse error.
C24_TwoStage ==
    dmarcPc \in {"done", "failed"} =>
        \A parsed \in {C24_Parsed(dmarcRecord, libParse)} :
            /\ dmarcPc = "failed"
                  <=> \/ S_v \notin DOMAIN parsed
                      \/ ~Includes(parsed[S_v], S_DMARC1)
            /\ dmarcPc = "failed"
                  => /\ ~dmarcAnalysis.success
                     /\ dmarcAnalysis.error
                            = "Invalid DMARC record: missing or incorrect version"
            /\ dmarcPc = "done"
                  => /\ dmarcAnalysis.success
                     /\ dmarcAnalysis.parsed = parsed

\* a record whose later v tag has another value failed in the hand-written
\* parser after the library raised
C24_Witness ==
    /\ dmarcPc = "failed"
    /\ dmarcRecord = ServedInvalid
    /\ libParse = LibThrows
    /\ ~dmarcAnalysis.success
    /\ customDMARCParse(dmarcRecord)[S_v] = <<"s","p","f","1">>

\* C25: every successful MX analysis has score value 2 or 3 and level Good
\* or Excellent, Good with 2 and Excellent with 3; a single record earns the
\* priority point and scores 2.
C25_GoodOrExcellent ==
    mxPc = "done" =>
        /\ mxResult.success
        /\ mxResult.score.value \in {20, 30}
        /\ mxResult.score.level \in {"Good", "Excellent"}
        /\ mxResult.score.value = 30 <=> mxResult.score.level = "Excellent"
        /\ Len(mxRecords) = 1
              => /\ mxResult.score.value = 20
                 /\ InSeq("Proper priority configuration (+1 point)",
                          mxResult.score.details)

\* one MX record was analysed: value 2, level Good
C25_Witness ==
    /\ mxPc = "done"
    /\ Len(mxRecords) = 1
    /\ mxResult.success
    /\ mxResult.score.value = 20
    /\ mxResult.score.level = "Good"

\* the entry of an IP in a store, or no entry
EntryOf(store, ip) ==
    IF ip \in DOMAIN store THEN <<store[ip]>> ELSE <<>>

\* one request passes through the rate limiter: the clock stands still
C26_Request ==
    rlPc = "running" /\ rlNow' = rlNow
    => LET ip == rlLast'.ip
           response == rlLast'.response
           inWindow == /\ ip \in DOMAIN rateLimitStore
                       /\ rlNow <= rateLimitStore[ip].resetTime
       IN  /\ \A other \in ClientIPs \ {ip} :
                 EntryOf(rateLimitStore', other) = EntryOf(rateLimitStore, other)
           /\ rlAdmitted'[ip].window <= Limit
           /\ inWindow
                 => /\ response.next <=> rlAdmitted[ip].window < Limit
                    /\ rateLimitStore'[ip].resetTime = rateLimitStore[ip].resetTime
                    /\ ~response.next
                          => /\ response.status = 429
                             /\ rateLimitStore' = rateLimitStore
           /\ ~inWindow
                 => /\ response.next
                    /\ rateLimitStore'[ip]
                           = [count |-> 1, resetTime |-> rlNow + Window]

\* C26: per client IP and per window, from the request that opens it until
\* its resetTime, at most 10 requests are admitted; every further request of
\* the window is answered 429 without next and leaves the store as it was;
\* the first request after resetTime is admitted and opens a window with
\* count 1; a request never changes the entry of another IP.
C26_PerWindow == [][C26_Request]_vars

\* the busy client was answered 429 at the very tick of its resetTime, after
\* 10 admitted requests, while the other client's entry holds its own count
C26_Witness ==
    /\ rlLast = [ip |-> BusyClient, response |-> TooManyRequests]
    /\ BusyClient \in DOMAIN rateLimitStore
    /\ rateLimitStore[BusyClient].count = Limit
    /\ rateLimitStore[BusyClient].resetTime = rlNow
    /\ rlAdmitted[BusyClient].window = Limit
    /\ OtherClient \in DOMAIN rateLimitStore
    /\ rateLimitStore[OtherClient].count = 1

\* C27: for every client IP and every 60-second interval (two consecutive
\* ticks of the clock), at most 10 requests of that IP are admitted within
\* the interval.
C27_TenPerMinute ==
    rlPc = "running" =>
        \A ip \in ClientIPs : rlAdmitted[ip].now + rlAdmitted[ip].prev <= Limit

\* the answer that matches the text generated
RightAnswer == <<" ","A","b","1","2","C"," ">>

\* the last call ran verifyCaptcha
Verified == InSeq("verifyCaptcha", capLast.steps)

C29_Created ==
    capLast.op = "createCaptcha" =>
        /\ capLast.after = <<[text |-> ToLowerCase(capLast.answer),
                              expires |-> capNow + Expiry]>>
        /\ \A token \in DOMAIN captchaStore :
              ~(captchaStore[token].expires < capNow)

\* verifyCaptcha returns true only for an issued token that is not past its
\* expiry and is given the stored text, whatever its case and the blanks
\* around it
C29_TrueOnlyIf ==
    (Verified /\ capLast.valid) =>
        /\ capLast.token \in 1..capIssued
        /\ capLast.before # <<>>
        /\ capNow <= capLast.before[1].expires
        /\ ToLowerCase(Trim(capLast.answer)) = capLast.before[1].text

\* the last call verified a token that was past its expiry
C29_AfterExpiry ==
    Verified /\ capLast.before # <<>> /\ capNow > capLast.before[1].expires

\* C29 as claimed: a captcha expires 5 minutes after creation; verifyCaptcha
\* returns true only for an issued, unexpired token given the stored text;
\* a verification after expiry returns false and deletes the token; after
\* createCaptcha the store holds no entry that expired before the call.
C29_Original ==
    capPc # "idle" =>
        /\ C29_Created
        /\ C29_TrueOnlyIf
        /\ C29_AfterExpiry => ~capLast.valid /\ capLast.after = <<>>

\* C29 amended: as claimed, but a verification after expiry deletes the token
\* only when it is given a non-empty answer; with an empty answer it returns
\* false and leaves the entry in the store.
C29_Expiry ==
    capPc # "idle" =>
        /\ C29_Created
        /\ C29_TrueOnlyIf
        /\ C29_AfterExpiry
              => /\ ~capLast.valid
                 /\ capLast.answer # <<>> => capLast.after = <<>>
                 /\ capLast.answer = <<>> => capLast.after = capLast.before

\* a token past its expiry was verified with the right answer: false, and the
\* token was deleted
C29_Witness ==
    /\ C29_AfterExpiry
    /\ capLast.answer = RightAnswer
    /\ ~capLast.valid
    /\ capLast.after = <<>>

\* the last call was a request to one of the two routes
OnRoute == capLast.op \in {"POST /analyze-dmarc-with-captcha", "POST /analyze-dmarc"}

\* C30: on POST /analyze-dmarc-with-captcha and on the router's POST
\* /analyze-dmarc, an analysis is run and answered only in a request whose
\* captcha verification returned valid, the verification comes before the
\* analysis, and no token has more than one analysis run for it.
C30_CaptchaMandatory ==
    capPc # "idle" =>
        /\ (OnRoute /\ (InSeq("analyzeDMARC", capLast.steps) \/ capLast.status = 200))
              => /\ capLast.steps = <<"verifyCaptcha", "analyzeDMARC">>
                 /\ capLast.valid
                 /\ capLast.before # <<>>
                 /\ capLast.after = <<>>
        /\ \A token \in 1..MaxCaptchas : capUse[token].analyses <= 1

\* a captcha that had authorized an analysis was presented again with the
\* right answer: the request is refused before any analysis
C30_Witness ==
    /\ OnRoute
    /\ capLast.token = 1
    /\ capLast.answer = RightAnswer
    /\ capUse[1].analyses = 1
    /\ capLast.steps = <<"verifyCaptcha">>
    /\ ~capLast.valid
    /\ capLast.status = 400

====
